---------------------------- MODULE Spec2Model ----------------------------
(***************************************************************************)
(* A model of the fraud-scoring engine of src/app/utils/fraud.py: the      *)
(* safe division _div, the ratio engine _ratios, the rule scorers          *)
(* beneish_score and piotroski_score, the memoized statement fetch         *)
(* _two_years and the dispatcher predict.                                  *)
(*                                                                         *)
(* Numbers.  A Python float is modelled as an exact rational n/d (d > 0,   *)
(* lowest terms) or one of the IEEE specials NaN, +inf, -inf; rounding is  *)
(* not modelled.  A value that is no number (None, a str) is Obj.  An      *)
(* exception in flight inside an expression is a value of kind             *)
(* "ZeroDivisionError" or "TypeError"; every arithmetic operator           *)
(* propagates it, as Python abandons the enclosing expression.             *)
(***************************************************************************)
EXTENDS Integers, Sequences, FiniteSets, TLC

VARIABLES
    pc,          \* position of the function or of the predict call in progress
    inp,         \* argument(s) of the pure function under analysis
    out,         \* what the pure function returned (or that it raised)
    provider,    \* statement provider: ticker -> the response it gives now
    cache,       \* lru_cache of _two_years: ticker -> entry
    tkr,         \* predict's argument tkr
    method,      \* predict's argument method
    df2,         \* predict's local df2
    feats,       \* predict's local feats
    result,      \* what predict returned or raised
    seen,        \* the provider response the call's df2 derives from
    queried,     \* whether this call queried the provider
    ratioCalls,  \* invocations of _ratios in this call
    scorerCalls, \* invocations of a scorer or of the classifier in this call
    fetchCalls,  \* invocations of _two_years in this call
    fetched,     \* history: the provider queries that returned, and any query after them
    cache0,      \* history: the cache as it was when the call began
    noted,       \* history: one earlier call, as an observer recorded it
    pending      \* a fetch of _two_years in flight in another thread

pureVars == <<pc, inp, out>>
watchVars == <<noted, pending>>
predictVars == <<provider, cache, tkr, method, df2, feats, result, seen,
                 queried, ratioCalls, scorerCalls, fetchCalls, fetched, cache0, noted,
          pending>>
vars == <<pc, inp, out, provider, cache, tkr, method, df2, feats, result, seen,
          queried, ratioCalls, scorerCalls, fetchCalls, fetched, cache0, noted,
          pending>>

---------------------------------------------------------------------------
(* Floats *)

Abs(i) == IF i < 0 THEN -i ELSE i

RECURSIVE GCD(_, _)
GCD(a, b) == IF b = 0 THEN a ELSE GCD(b, a % b)

\* The rational n/d, d # 0, in lowest terms with a positive denominator.
Rat(n, d) ==
    LET s == IF d < 0 THEN -1 ELSE 1
        g == GCD(Abs(n), Abs(d))
    IN  [k |-> "num", n |-> (s * n) \div g, d |-> (s * d) \div g]

Int2V(i) == [k |-> "num", n |-> i, d |-> 1]
Zero == Int2V(0)
One == Int2V(1)
NaN == [k |-> "nan", n |-> 0, d |-> 1]
PInf == [k |-> "inf", n |-> 1, d |-> 1]
NInf == [k |-> "inf", n |-> -1, d |-> 1]
Obj == [k |-> "obj", n |-> 0, d |-> 1]
ZeroDivisionError == [k |-> "ZeroDivisionError", n |-> 0, d |-> 1]
TypeError == [k |-> "TypeError", n |-> 0, d |-> 1]

IsNum(a) == a.k = "num"
IsInf(a) == a.k = "inf"
IsNaN(a) == a.k = "nan"
IsExc(a) == a.k \in {"ZeroDivisionError", "TypeError"}
IsFinite(a) == a.k = "num"
IsZero(a) == a.k = "num" /\ a.n = 0
Sgn(a) == IF a.n > 0 THEN 1 ELSE IF a.n < 0 THEN -1 ELSE 0
InfOf(s) == IF s > 0 THEN PInf ELSE NInf

\* The exception an operand already carries, or the TypeError of a non-number.
Trouble(a, b) ==
    IF IsExc(a) THEN a
    ELSE IF IsExc(b) THEN b
    ELSE TypeError

HasTrouble(a, b) == IsExc(a) \/ IsExc(b) \/ a.k = "obj" \/ b.k = "obj"

\* float.__add__
FAdd(a, b) ==
    IF HasTrouble(a, b) THEN Trouble(a, b)
    ELSE IF IsNaN(a) \/ IsNaN(b) THEN NaN
    ELSE IF IsInf(a) THEN (IF IsInf(b) /\ b.n # a.n THEN NaN ELSE a)
    ELSE IF IsInf(b) THEN b
    ELSE LET c == GCD(a.d, b.d)   \* over the least common denominator
         IN  Rat(a.n * (b.d \div c) + b.n * (a.d \div c), (a.d \div c) * b.d)

\* float.__neg__
FNeg(a) ==
    IF IsExc(a) THEN a
    ELSE IF a.k = "obj" THEN TypeError
    ELSE IF IsNaN(a) THEN NaN
    ELSE [a EXCEPT !.n = -a.n]

\* float.__sub__
FSub(a, b) == FAdd(a, FNeg(b))

\* float.__mul__
FMul(a, b) ==
    IF HasTrouble(a, b) THEN Trouble(a, b)
    ELSE IF IsNaN(a) \/ IsNaN(b) THEN NaN
    ELSE IF IsInf(a) \/ IsInf(b)
         THEN (IF Sgn(a) * Sgn(b) = 0 THEN NaN ELSE InfOf(Sgn(a) * Sgn(b)))
    ELSE LET c == GCD(Abs(a.n), b.d)   \* cancel across before multiplying
             e == GCD(Abs(b.n), a.d)
         IN  Rat((a.n \div c) * (b.n \div e), (a.d \div e) * (b.d \div c))

\* float.__truediv__: a zero divisor raises, whatever the dividend.
FDiv(a, b) ==
    IF HasTrouble(a, b) THEN Trouble(a, b)
    ELSE IF IsZero(b) THEN ZeroDivisionError
    ELSE IF IsNaN(a) \/ IsNaN(b) THEN NaN
    ELSE IF IsInf(a) THEN (IF IsInf(b) THEN NaN ELSE InfOf(Sgn(a) * Sgn(b)))
    ELSE IF IsInf(b) THEN Zero
    ELSE LET c == GCD(Abs(a.n), Abs(b.n))   \* cancel across before multiplying
             e == GCD(a.d, b.d)
         IN  Rat((a.n \div c) * (b.d \div e), (a.d \div e) * (b.n \div c))

\* a < b and a > b on floats: false when either side is NaN.
FLt(a, b) ==
    IF IsNaN(a) \/ IsNaN(b) THEN FALSE
    ELSE IF IsInf(a) THEN a.n < 0 /\ ~(IsInf(b) /\ b.n < 0)
    ELSE IF IsInf(b) THEN b.n > 0
    ELSE a.n * b.d < b.n * a.d

FGt(a, b) == FLt(b, a)

\* a <= b on floats: false when either side is NaN.
FLe(a, b) == ~IsNaN(a) /\ ~IsNaN(b) /\ ~FLt(b, a)

---------------------------------------------------------------------------
(* _div *)

\* def _div(n, d, fallback=0.0):
\*     try:  if d == 0 or np.isnan(d): return fallback
\*           return n / d
\*     except: return fallback
\* d == 0 raises for no operand; np.isnan raises TypeError for a non-number.
_div(n, d, fallback) ==
    IF IsZero(d) THEN fallback
    ELSE IF d.k = "obj" THEN fallback
    ELSE IF IsNaN(d) THEN fallback
    ELSE LET q == FDiv(n, d) IN IF IsExc(q) THEN fallback ELSE q

---------------------------------------------------------------------------
(* Statement data *)

\* The line items _ratios reads (fraud.py:41-51, 71, 77-79).
Items == {"netReceivables", "revenue", "costOfRevenue", "totalCurrentAssets",
          "propertyPlantEquipmentNet", "totalAssets",
          "depreciationAndAmortization", "netIncome", "totalLiabilities",
          "totalCurrentLiabilities", "ebit", "operatingCashFlow",
          "weightedAverageShsOut"}

\* One row of the merged frame: the fiscal year's date and its line items.
Period(date, rect, sale, cogs, act, ppe, at, dp, ni, lt, lct, ebit, cfo, sh) ==
    [x \in Items \cup {"date"} |->
        CASE x = "date" -> Int2V(date)
          [] x = "netReceivables" -> Int2V(rect)
          [] x = "revenue" -> Int2V(sale)
          [] x = "costOfRevenue" -> Int2V(cogs)
          [] x = "totalCurrentAssets" -> Int2V(act)
          [] x = "propertyPlantEquipmentNet" -> Int2V(ppe)
          [] x = "totalAssets" -> Int2V(at)
          [] x = "depreciationAndAmortization" -> Int2V(dp)
          [] x = "netIncome" -> Int2V(ni)
          [] x = "totalLiabilities" -> Int2V(lt)
          [] x = "totalCurrentLiabilities" -> Int2V(lct)
          [] x = "ebit" -> Int2V(ebit)
          [] x = "operatingCashFlow" -> Int2V(cfo)
          [] x = "weightedAverageShsOut" -> Int2V(sh)]

\* Two companies, two fiscal years each: a profitable one and one with a
\* loss, negative operating cash flow and newly issued shares.
GrowC == Period(2023, 100, 1000, 600, 300, 200, 800, 50, 120, 400, 150, 170, 140, 1000)
GrowP == Period(2022, 80, 900, 550, 280, 210, 750, 45, 100, 380, 140, 150, 110, 1000)
LossC == Period(2023, 90, 400, 420, 150, 300, 600, 30, -80, 500, 200, -60, -20, 1200)
LossP == Period(2022, 60, 500, 450, 200, 280, 640, 35, -10, 450, 160, 5, 30, 1000)

\* A third company, whose sales doubled.
EvenC == Period(2023, 100, 1000, 600, 300, 200, 800, 50, 150, 400, 150, 200, 200, 1000)
EvenP == Period(2022, 40, 500, 250, 200, 100, 400, 25, 50, 250, 100, 80, 60, 1000)

Profiles == {<<GrowP, GrowC>>, <<LossP, LossC>>}

\* A period with the line items of Z reported as 0.
Zeroed(rec, Z) == [x \in DOMAIN rec |-> IF x \in Z THEN Zero ELSE rec[x]]

\* A row without the columns of M.
Drop(rec, M) == [x \in DOMAIN rec \ M |-> rec[x]]

\* A row with the columns of M present and 0.0.
Fill(rec, M) == [x \in DOMAIN rec \cup M |-> IF x \in DOMAIN rec THEN rec[x] ELSE Zero]

---------------------------------------------------------------------------
(* _ratios *)

\* The 25 keys of the dict literal of _ratios, in its order.
FeatureNames ==
    <<"DSRI", "GMI", "AQI", "SGI", "DEPI", "SGAI", "LVGI", "TATA",
      "leverage", "profitability", "liquidity", "EBIT_to_assets",
      "soft_asset_ratio",
      "ROA", "Prev_ROA", "CFO", "GrossMargin", "Prev_GM", "AssetTurn",
      "Prev_AT", "CurrRatio", "Prev_CR", "Shares", "Prev_Shares",
      "Prev_leverage">>

\* r.<name> on a one-row frame given as a sequence of [name, val].
Field(fv, name) == fv[CHOOSE i \in 1..Len(fv) : fv[i].name = name].val

F(name, val) == [name |-> name, val |-> val]

\* g = lambda row, k: float(row.get(k, 0)); float() of a number keeps it.
g(row, x) == IF x \in DOMAIN row THEN row[x] ELSE Zero

\* A call _div(n, d) with the default fallback 0.0: Python evaluates the
\* argument expressions first, outside _div's try, so an exception raised
\* there leaves the call unmade and propagates.
Call_div(n, d) ==
    IF IsExc(n) THEN n
    ELSE IF IsExc(d) THEN d
    ELSE _div(n, d, Zero)

\* What a function call comes to: a returned value or a raised exception.
Return(v) == [raised |-> "none", value |-> v]
Raise(e) == [raised |-> e, value |-> <<>>]

\* A plausible slip: GMI computed current over prior, like the other indices.
MutGMIRow(saleC, cogsC, saleP, cogsP) ==
    Call_div(FDiv(FSub(saleC, cogsC), saleC), FDiv(FSub(saleP, cogsP), saleP))

\* "GMI": _div((saleP - cogsP) / saleP, (saleC - cogsC) / saleC)
GMIRow(saleC, cogsC, saleP, cogsP) ==
    Call_div(FDiv(FSub(saleP, cogsP), saleP), FDiv(FSub(saleC, cogsC), saleC))

\* A plausible slip: the current rate over the prior one.
MutDEPIRow(dpC, ppeC, dpP, ppeP) ==
    Call_div(FDiv(dpC, FAdd(dpC, ppeC)), FDiv(dpP, FAdd(dpP, ppeP)))

\* "DEPI": _div(dpP / (dpP + ppeP), dpC / (dpC + ppeC))
DEPIRow(dpC, ppeC, dpP, ppeP) ==
    Call_div(FDiv(dpP, FAdd(dpP, ppeP)), FDiv(dpC, FAdd(dpC, ppeC)))

\* A plausible slip: the rows are counted from the start of the frame, so
\* that c is the first row and p the second.
MutIlocFromStart(df, i) == df[-i]

\* df2.iloc[-1], df2.iloc[-2]: rows counted from the end of the frame.
iloc(df, i) == df[Len(df) + 1 + i]

\* A plausible slip: ebit is read with the default 0 of g when absent.
MutEbitDefaultZero(row) == g(row, "ebit")

\* ebitC = g(c, "ebit") if "ebit" in c else niC
ebitC(row) == IF "ebit" \in DOMAIN row THEN g(row, "ebit") ELSE g(row, "netIncome")

\* A plausible slip: columns without a value are dropped from the frame.
MutDataFrameDropZero(row) == SelectSeq(row, LAMBDA e : ~IsZero(e.val))

\* pd.DataFrame([{...}]): one row, the columns are the keys of the dict in
\* the order of the literal.
DataFrame(row) == [i \in 1..Len(row) |-> [name |-> row[i].name, val |-> row[i].val]]

\* def _ratios(df2): the dict literal is evaluated entry by entry; the first
\* entry whose expression raises ends the call with that exception.
_ratios(df) ==
    LET c == iloc(df, -1)
        p == iloc(df, -2)
        rectC == g(c, "netReceivables")
        rectP == g(p, "netReceivables")
        saleC == g(c, "revenue")
        saleP == g(p, "revenue")
        cogsC == g(c, "costOfRevenue")
        cogsP == g(p, "costOfRevenue")
        actC == g(c, "totalCurrentAssets")
        actP == g(p, "totalCurrentAssets")
        ppeC == g(c, "propertyPlantEquipmentNet")
        ppeP == g(p, "propertyPlantEquipmentNet")
        atC == g(c, "totalAssets")
        atP == g(p, "totalAssets")
        dpC == g(c, "depreciationAndAmortization")
        dpP == g(p, "depreciationAndAmortization")
        niC == g(c, "netIncome")
        niP == g(p, "netIncome")
        ltC == g(c, "totalLiabilities")
        ltP == g(p, "totalLiabilities")
        lctC == g(c, "totalCurrentLiabilities")
        ebC == ebitC(c)
        row == <<
          F("DSRI", Call_div(FDiv(rectC, saleC), FDiv(rectP, saleP))),
          F("GMI", GMIRow(saleC, cogsC, saleP, cogsP)),
          F("AQI", Call_div(FSub(One, FDiv(FAdd(actC, ppeC), atC)),
                            FSub(One, FDiv(FAdd(actP, ppeP), atP)))),
          F("SGI", Call_div(saleC, saleP)),
          F("DEPI", DEPIRow(dpC, ppeC, dpP, ppeP)),
          F("SGAI", Call_div(FDiv(FSub(FSub(saleC, cogsC), niC), saleC),
                             FDiv(FSub(FSub(saleP, cogsP), niP), saleP))),
          F("LVGI", Call_div(FDiv(ltC, atC), FDiv(ltP, atP))),
          F("TATA", Call_div(FSub(FSub(actC, lctC), dpC), atC)),
          F("leverage", Call_div(ltC, atC)),
          F("profitability", Call_div(niC, atC)),
          F("liquidity", Call_div(actC, lctC)),
          F("EBIT_to_assets", Call_div(ebC, atC)),
          F("soft_asset_ratio", Call_div(FSub(actC, ppeC), atC)),
          F("ROA", Call_div(niC, atC)),
          F("Prev_ROA", Call_div(niP, atP)),
          F("CFO", Call_div(g(c, "operatingCashFlow"), atC)),
          F("GrossMargin", Call_div(FSub(saleC, cogsC), saleC)),
          F("Prev_GM", Call_div(FSub(saleP, cogsP), saleP)),
          F("AssetTurn", Call_div(saleC, atC)),
          F("Prev_AT", Call_div(saleP, atP)),
          F("CurrRatio", Call_div(actC, lctC)),
          F("Prev_CR", Call_div(actP, g(p, "totalCurrentLiabilities"))),
          F("Shares", g(c, "weightedAverageShsOut")),
          F("Prev_Shares", g(p, "weightedAverageShsOut")),
          F("Prev_leverage", Call_div(ltP, atP)) >>
        bad == {i \in 1..Len(row) : IsExc(row[i].val)}
    IN  IF Len(df) < 2 THEN Raise("IndexError")   \* df2.iloc[-2] is out of bounds
        ELSE IF bad = {} THEN Return(DataFrame(row))
        ELSE Raise(row[CHOOSE i \in bad : \A j \in bad : i <= j].val.k)

---------------------------------------------------------------------------
(* The pure functions, each applied once to an input drawn at Init *)

\* The dispatcher's variables, at rest while a pure function is analysed.
Parked ==
    /\ provider = <<>> /\ cache = <<>> /\ tkr = "" /\ method = ""
    /\ df2 = <<>> /\ feats = <<>> /\ result = <<>> /\ seen = <<>>
    /\ queried = FALSE /\ ratioCalls = 0 /\ scorerCalls = 0
    /\ fetchCalls = 0 /\ fetched = {} /\ cache0 = <<>> /\ noted = <<>> /\ pending = <<>>

NoOut == [raised |-> "pending", value |-> <<>>]

MaxDivInt == 2

\* Arguments of _div: small integers, the IEEE specials and a non-number.
DivVals == {Int2V(i) : i \in -MaxDivInt..MaxDivInt} \cup {NaN, PInf, NInf, Obj}

InitDiv ==
    /\ pc = "ready"
    /\ inp \in [n : DivVals, d : DivVals, fallback : DivVals]
    /\ out = NoOut
    /\ Parked

CallDiv ==
    /\ pc = "ready"
    /\ out' = Return(_div(inp.n, inp.d, inp.fallback))
    /\ pc' = "done"
    /\ UNCHANGED <<inp, predictVars>>

NextDiv == CallDiv

SpecDiv == InitDiv /\ [][NextDiv]_vars

MaxMissing == 1

\* The sets of line items a period reports as 0.
ZeroSets ==
    {{}} \cup {{x} : x \in Items}
         \cup {{"depreciationAndAmortization", "propertyPlantEquipmentNet"}}

\* Zeroed in the prior period, in the current period, or the same in both.
ZeroPairs == {zz \in ZeroSets \X ZeroSets : zz[1] = {} \/ zz[2] = {} \/ zz[1] = zz[2]}

\* The sets of columns the merged frame lacks.
MissingSets == {M \in SUBSET Items : Cardinality(M) <= MaxMissing}

\* The two-row frames df2: prior row first, as _two_years sorts them.
Frames ==
    {<<Drop(Zeroed(prof[1], zz[1]), M), Drop(Zeroed(prof[2], zz[2]), M)>> :
        prof \in Profiles, zz \in ZeroPairs, M \in MissingSets}

InitRatios ==
    /\ pc = "ready"
    /\ inp \in Frames
    /\ out = NoOut
    /\ Parked

CallRatios ==
    /\ pc = "ready"
    /\ out' = _ratios(inp)
    /\ pc' = "done"
    /\ UNCHANGED <<inp, predictVars>>

NextRatios == CallRatios

SpecRatios == InitRatios /\ [][NextRatios]_vars

---------------------------------------------------------------------------
(* Claims about _div and _ratios *)

\* The current and the prior period of the frame _ratios was given.
CurRow == inp[Len(inp)]
PrevRow == inp[Len(inp) - 1]

\* The frame with every absent line item present and equal to 0.0.
FilledFrame == <<Fill(inp[1], Items), Fill(inp[2], Items)>>

\* revenue, totalAssets and depreciation + PPE are non-zero in both periods.
NonDegenerate ==
    /\ \A row \in {CurRow, PrevRow} :
          /\ ~IsZero(g(row, "revenue"))
          /\ ~IsZero(g(row, "totalAssets"))
          /\ ~IsZero(FAdd(g(row, "depreciationAndAmortization"),
                          g(row, "propertyPlantEquipmentNet")))

\* The safe division as the specification words it.
SpecDivide(n, d, fallback) ==
    IF ~IsFinite(d) \/ IsZero(d) THEN fallback ELSE FDiv(n, d)

\* The fields whose expression divides by a line item (or by a prior-period
\* expression) that is zero or missing in the given frame.
ZeroDenFields ==
    LET c == CurRow
        p == PrevRow
        z(row, x) == IsZero(g(row, x))
        depz(row) == IsZero(FAdd(g(row, "depreciationAndAmortization"),
                                 g(row, "propertyPlantEquipmentNet")))
        when(b, S) == IF b THEN S ELSE {}
    IN  when(z(c, "revenue"), {"DSRI", "GMI", "SGAI", "GrossMargin"})
        \cup when(z(p, "revenue"), {"DSRI", "GMI", "SGI", "SGAI", "Prev_GM"})
        \cup when(z(c, "totalAssets"),
                  {"AQI", "LVGI", "TATA", "leverage", "profitability",
                   "EBIT_to_assets", "soft_asset_ratio", "ROA", "CFO", "AssetTurn"})
        \cup when(z(p, "totalAssets"),
                  {"AQI", "LVGI", "Prev_ROA", "Prev_AT", "Prev_leverage"})
        \cup when(depz(c) \/ depz(p), {"DEPI"})
        \cup when(z(c, "totalCurrentLiabilities"), {"liquidity", "CurrRatio"})
        \cup when(z(p, "totalCurrentLiabilities"), {"Prev_CR"})
        \cup when(z(p, "netReceivables"), {"DSRI"})
        \cup when(z(p, "totalLiabilities"), {"LVGI"})
        \cup when(z(c, "depreciationAndAmortization"), {"DEPI"})

\* C1: _ratios never fails: for every pair of periods with finite line items,
\* zero revenue, total assets or depreciation + PPE included, the call returns
\* a FeatureVector and raises nothing.
C1_RatiosNeverFails == pc = "done" => out.raised = "none"

\* C2: every FeatureVector has the 25 named fields, every value is finite,
\* and every ratio whose denominator is zero or missing comes out as 0.0.
C2_FieldsFiniteZeroFallback ==
    pc = "done" =>
        /\ out.raised = "none" =>
              /\ Len(out.value) = 25
              /\ \A i \in 1..25 : /\ out.value[i].name = FeatureNames[i]
                                  /\ IsFinite(out.value[i].val)
        /\ \A name \in ZeroDenFields :
              out.raised = "none" /\ Field(out.value, name) = Zero

\* C3: _div(n, d, fallback) returns fallback when d is 0, NaN, +inf or -inf,
\* returns n/d for every other d, and returns fallback whenever the
\* comparison or the division raises.
C3_SafeDivision ==
    pc = "done" =>
        IF IsZero(inp.d) \/ IsNaN(inp.d) \/ IsInf(inp.d)
            THEN out = Return(inp.fallback)
        ELSE IF inp.d.k = "obj" \/ inp.n.k = "obj"
            THEN out = Return(inp.fallback)
        ELSE out = Return(FDiv(inp.n, inp.d))

\* C4: a missing line item is never an error: with any set of line items
\* absent, _ratios returns, and returns the FeatureVector of the same pair
\* with those items present and equal to 0.0.
C4_MissingItemIsZero ==
    pc = "done" => out.raised = "none" /\ out = _ratios(FilledFrame)

\* C5: when revenue, totalAssets and depreciation + PPE are non-zero in both
\* periods, the eight core indices are div(current, prior, 0.0) of the
\* expressions of the specification's table, GMI and DEPI prior over current,
\* TATA the single-period div(currentAssets - currentLiab - dep, totalAssets).
C5_CoreIndices ==
    LET c == CurRow
        p == PrevRow
        rect(r) == g(r, "netReceivables")
        sale(r) == g(r, "revenue")
        cogs(r) == g(r, "costOfRevenue")
        act(r) == g(r, "totalCurrentAssets")
        ppe(r) == g(r, "propertyPlantEquipmentNet")
        at(r) == g(r, "totalAssets")
        dep(r) == g(r, "depreciationAndAmortization")
        ni(r) == g(r, "netIncome")
        lt(r) == g(r, "totalLiabilities")
        lct(r) == g(r, "totalCurrentLiabilities")
        gm(r) == FDiv(FSub(sale(r), cogs(r)), sale(r))
        aq(r) == FSub(One, FDiv(FAdd(act(r), ppe(r)), at(r)))
        dr(r) == FDiv(dep(r), FAdd(dep(r), ppe(r)))
        sga(r) == FDiv(FSub(FSub(sale(r), cogs(r)), ni(r)), sale(r))
        fv == out.value
    IN  pc = "done" /\ NonDegenerate =>
          /\ out.raised = "none"
          /\ Field(fv, "DSRI") = SpecDivide(FDiv(rect(c), sale(c)), FDiv(rect(p), sale(p)), Zero)
          /\ Field(fv, "GMI") = SpecDivide(gm(p), gm(c), Zero)
          /\ Field(fv, "AQI") = SpecDivide(aq(c), aq(p), Zero)
          /\ Field(fv, "SGI") = SpecDivide(sale(c), sale(p), Zero)
          /\ Field(fv, "DEPI") = SpecDivide(dr(p), dr(c), Zero)
          /\ Field(fv, "SGAI") = SpecDivide(sga(c), sga(p), Zero)
          /\ Field(fv, "LVGI") = SpecDivide(FDiv(lt(c), at(c)), FDiv(lt(p), at(p)), Zero)
          /\ Field(fv, "TATA") = SpecDivide(FSub(FSub(act(c), lct(c)), dep(c)), at(c), Zero)

\* C5 witness: a non-degenerate pair whose DSRI is 9/8 and whose GMI is not 1,
\* so that the orientation of GMI shows.
C5_Witness ==
    /\ pc = "done"
    /\ NonDegenerate
    /\ out.raised = "none"
    /\ Field(out.value, "DSRI") = Rat(9, 8)
    /\ Field(out.value, "GMI") # One
    /\ FGt(Field(out.value, "GMI"), Zero)

---------------------------------------------------------------------------
(* Rule scorers *)

\* A decimal literal of the source, given in thousandths.
Milli(i) == Rat(i, 1000)

\* A plausible slip: the threshold itself is flagged.
MutBeneishFlagGe(m) == FLe(Milli(-2220), m)

\* flag = m > -2.22
BeneishFlag(m) == FGt(m, Milli(-2220))

\* A plausible slip: the published eight-variable model, with its LVGI term.
MutBeneishEightVariable(r) ==
    LET m == FSub(FAdd(FSub(FAdd(FAdd(FAdd(FAdd(FAdd(
                 Milli(-4840),
                 FMul(Milli(920), Field(r, "DSRI"))),
                 FMul(Milli(528), Field(r, "GMI"))),
                 FMul(Milli(404), Field(r, "AQI"))),
                 FMul(Milli(892), Field(r, "SGI"))),
                 FMul(Milli(115), Field(r, "DEPI"))),
                 FMul(Milli(172), Field(r, "SGAI"))),
                 FMul(Milli(4679), Field(r, "TATA"))),
                 FMul(Milli(327), Field(r, "LVGI")))
    IN  Return([score |-> m, flag |-> BeneishFlag(m)])

\* def beneish_score(r): the sum is evaluated left to right.
beneish_score(r) ==
    LET m == FAdd(FSub(FAdd(FAdd(FAdd(FAdd(FAdd(
                 Milli(-4840),
                 FMul(Milli(920), Field(r, "DSRI"))),
                 FMul(Milli(528), Field(r, "GMI"))),
                 FMul(Milli(404), Field(r, "AQI"))),
                 FMul(Milli(892), Field(r, "SGI"))),
                 FMul(Milli(115), Field(r, "DEPI"))),
                 FMul(Milli(172), Field(r, "SGAI"))),
                 FMul(Milli(4679), Field(r, "TATA")))
    IN  Return([score |-> m, flag |-> BeneishFlag(m)])

\* score += <bool>: True counts 1, False 0.
B2I(b) == IF b THEN 1 ELSE 0

\* A plausible slip: unchanged shares no longer earn the point.
MutShareChangeStrict(r) == FLt(Field(r, "Shares"), Field(r, "Prev_Shares"))

\* share_change = r.Shares <= r.Prev_Shares
ShareChange(r) == FLe(Field(r, "Shares"), Field(r, "Prev_Shares"))

\* A plausible slip: a score of 3 is no longer flagged.
MutPiotroskiFlagLt(score) == score < 3

\* flag = score <= 3
PiotroskiFlag(score) == score <= 3

\* def piotroski_score(r)
piotroski_score(r) ==
    LET roa_cur == Field(r, "ROA")
        roa_prev == Field(r, "Prev_ROA")
        cfo == Field(r, "CFO")
        accrual == FGt(cfo, roa_cur)
        gm_cur == Field(r, "GrossMargin")
        gm_prev == Field(r, "Prev_GM")
        at_cur == Field(r, "AssetTurn")
        at_prev == Field(r, "Prev_AT")
        lev_cur == Field(r, "leverage")
        lev_prev == Field(r, "Prev_leverage")
        cr_cur == Field(r, "CurrRatio")
        cr_prev == Field(r, "Prev_CR")
        share_change == ShareChange(r)
        score == 0
                 + B2I(FGt(roa_cur, Zero))
                 + B2I(FGt(cfo, Zero))
                 + B2I(FGt(FSub(roa_cur, roa_prev), Zero))
                 + B2I(accrual)
                 + B2I(FLt(lev_cur, lev_prev))
                 + B2I(FGt(cr_cur, cr_prev))
                 + B2I(FGt(FSub(gm_cur, gm_prev), Zero))
                 + B2I(FGt(FSub(at_cur, at_prev), Zero))
                 + B2I(share_change)
    IN  Return([score |-> score, flag |-> PiotroskiFlag(score)])

MaxFeat == 2

\* Field values of the FeatureVectors the scorers are applied to.
FeatVals == {Int2V(i) : i \in -1..MaxFeat}

BeneishFields == {"DSRI", "GMI", "AQI", "SGI", "DEPI", "SGAI", "TATA"}

\* The FeatureVector with the fields of DOMAIN f set as f says, the rest 0.0.
MkFV(f) ==
    [i \in 1..Len(FeatureNames) |->
        F(FeatureNames[i],
          IF FeatureNames[i] \in DOMAIN f THEN f[FeatureNames[i]] ELSE Zero)]

InitBeneish ==
    /\ pc = "ready"
    /\ \E f \in [BeneishFields -> FeatVals] : inp = MkFV(f)
    /\ out = NoOut
    /\ Parked

CallBeneish ==
    /\ pc = "ready"
    /\ out' = beneish_score(inp)
    /\ pc' = "done"
    /\ UNCHANGED <<inp, predictVars>>

NextBeneish == CallBeneish

SpecBeneish == InitBeneish /\ [][NextBeneish]_vars

\* A current and a prior value of one ratio: equal, risen or fallen.
Moves == {<<Zero, Zero>>, <<One, Zero>>, <<Zero, One>>}

InitPiotroski ==
    /\ pc = "ready"
    /\ \E roa \in FeatVals, proa \in FeatVals, cfo \in FeatVals,
          lev \in Moves, cr \in Moves, gm \in Moves, atn \in Moves, sh \in Moves :
          inp = MkFV(
                  ("ROA" :> roa) @@ ("Prev_ROA" :> proa) @@ ("CFO" :> cfo)
                  @@ ("leverage" :> lev[1]) @@ ("Prev_leverage" :> lev[2])
                  @@ ("CurrRatio" :> cr[1]) @@ ("Prev_CR" :> cr[2])
                  @@ ("GrossMargin" :> gm[1]) @@ ("Prev_GM" :> gm[2])
                  @@ ("AssetTurn" :> atn[1]) @@ ("Prev_AT" :> atn[2])
                  @@ ("Shares" :> sh[1]) @@ ("Prev_Shares" :> sh[2]))
    /\ out = NoOut
    /\ Parked

CallPiotroski ==
    /\ pc = "ready"
    /\ out' = piotroski_score(inp)
    /\ pc' = "done"
    /\ UNCHANGED <<inp, predictVars>>

NextPiotroski == CallPiotroski

SpecPiotroski == InitPiotroski /\ [][NextPiotroski]_vars

---------------------------------------------------------------------------
(* Claims about the rule scorers *)

\* 1000 * (the Beneish sum) for a vector of integer-valued fields.
BeneishMilli(r) ==
    LET v(name) == Field(r, name).n
    IN  -4840 + 920 * v("DSRI") + 528 * v("GMI") + 404 * v("AQI")
        + 892 * v("SGI") + 115 * v("DEPI") - 172 * v("SGAI") + 4679 * v("TATA")

AllZero(r) == \A i \in 1..Len(r) : r[i].val = Zero

\* C6: beneish_score returns score = -4.84 + 0.92 DSRI + 0.528 GMI + 0.404 AQI
\* + 0.892 SGI + 0.115 DEPI - 0.172 SGAI + 4.679 TATA and flag = (score > -2.22),
\* a score of exactly -2.22 not flagged; the all-zero vector scores -4.84,
\* not flagged.
C6_BeneishScore ==
    pc = "done" =>
        /\ out.raised = "none"
        /\ IsFinite(out.value.score)
        /\ \A i \in 1..Len(inp) : inp[i].val.d = 1
        /\ out.value.score.n * 1000 = BeneishMilli(inp) * out.value.score.d
        /\ out.value.flag <=> (out.value.score.n * 100 > -222 * out.value.score.d)
        /\ AllZero(inp) => out.value = [score |-> Rat(-484, 100), flag |-> FALSE]

\* C6 witness: a vector whose score is exactly the threshold -2.22.
C6_Witness ==
    /\ pc = "done"
    /\ out.raised = "none"
    /\ out.value.score = Rat(-222, 100)
    /\ ~out.value.flag

\* C7: the Piotroski score is an integer in 0..9 and the flag is true iff
\* the score is at most 3.
C7_PiotroskiRange ==
    pc = "done" =>
        /\ out.raised = "none"
        /\ out.value.score \in 0..9
        /\ out.value.flag <=> (out.value.score < 4)

\* C7 witness: a vector scored exactly 3, the largest flagged score.
C7_Witness ==
    /\ pc = "done"
    /\ out.raised = "none"
    /\ out.value.score = 3
    /\ out.value.flag

\* The nine tests of the specification, by number.
PiotroskiTest(r, i) ==
    LET v(name) == Field(r, name)
    IN  CASE i = 1 -> FGt(v("ROA"), Zero)
          [] i = 2 -> FGt(v("CFO"), Zero)
          [] i = 3 -> FGt(FSub(v("ROA"), v("Prev_ROA")), Zero)
          [] i = 4 -> FGt(v("CFO"), v("ROA"))
          [] i = 5 -> FLt(v("leverage"), v("Prev_leverage"))
          [] i = 6 -> FGt(v("CurrRatio"), v("Prev_CR"))
          [] i = 7 -> FGt(FSub(v("GrossMargin"), v("Prev_GM")), Zero)
          [] i = 8 -> FGt(FSub(v("AssetTurn"), v("Prev_AT")), Zero)
          [] i = 9 -> v("Shares") = v("Prev_Shares") \/ FLt(v("Shares"), v("Prev_Shares"))

\* C8: the Piotroski score is the number of the nine tests that are true,
\* each counted once; equal shares earn point 9, the strict tests earn
\* nothing on equality.
C8_PiotroskiCount ==
    pc = "done" =>
        /\ out.raised = "none"
        /\ out.value.score = Cardinality({i \in 1..9 : PiotroskiTest(inp, i)})

\* C8 witness: unchanged shares and unchanged ratios: point 9 is the only
\* one of the five year-over-year tests earned, and the score counts it.
C8_Witness ==
    /\ pc = "done"
    /\ out.raised = "none"
    /\ Field(inp, "Shares") = Field(inp, "Prev_Shares")
    /\ Field(inp, "ROA") = Field(inp, "Prev_ROA")
    /\ Field(inp, "leverage") = Field(inp, "Prev_leverage")
    /\ PiotroskiTest(inp, 1) /\ PiotroskiTest(inp, 4)
    /\ out.value.score = 4

---------------------------------------------------------------------------
(* The statement provider and _two_years *)

\* The columns of the three statements the provider serves; date, netIncome
\* and depreciationAndAmortization come in more than one statement.
IncCols == {"date", "revenue", "costOfRevenue", "netIncome", "ebit",
            "weightedAverageShsOut", "depreciationAndAmortization"}
BalCols == {"date", "netReceivables", "totalCurrentAssets",
            "propertyPlantEquipmentNet", "totalAssets", "totalLiabilities",
            "totalCurrentLiabilities"}
CfCols == {"date", "operatingCashFlow", "netIncome", "depreciationAndAmortization"}

\* limit=2 in the request URL: the provider serves at most two records.
Limit == 2

\* The first n records of years, each cut to the columns of one statement.
Statement(years, cols, n) ==
    [i \in 1..(IF n < Len(years) THEN n ELSE Len(years)) |->
        [x \in cols |-> years[i][x]]]

\* The three JSON lists served for fiscal years `years` (in the provider's
\* order), with ni, nb and nc records in the three statements.
Served(years, ni, nb, nc) ==
    [status |-> "ok",
     inc |-> Statement(years, IncCols, ni),
     bal |-> Statement(years, BalCols, nb),
     cf |-> Statement(years, CfCols, nc)]

\* What the provider can answer for a ticker: no data, one fiscal year, two
\* fiscal years newest first or oldest first, two years with no revenue in
\* the latest, a balance sheet one year short, and no answer at all (the
\* request raises).
Scenarios == {"empty", "one", "two_desc", "two_asc", "zero_rev", "short_bal",
              "down"}

Response(sc) ==
    CASE sc = "empty" -> Served(<<>>, 0, 0, 0)
      [] sc = "one" -> Served(<<EvenC>>, 1, 1, 1)
      [] sc = "two_desc" -> Served(<<EvenC, EvenP>>, Limit, Limit, Limit)
      [] sc = "two_asc" -> Served(<<EvenP, EvenC>>, Limit, Limit, Limit)
      [] sc = "zero_rev" -> Served(<<Zeroed(EvenC, {"revenue"}), EvenP>>, Limit, Limit, Limit)
      [] sc = "short_bal" -> Served(<<EvenC, EvenP>>, Limit, 1, Limit)
      [] sc = "down" -> [status |-> "down", inc |-> <<>>, bal |-> <<>>, cf |-> <<>>]

\* The number of fiscal periods a response holds: its longest statement.
Periods(resp) ==
    LET a == Len(resp.inc)
        b == Len(resp.bal)
        c == Len(resp.cf)
    IN  IF a >= b /\ a >= c THEN a ELSE IF b >= c THEN b ELSE c

Cols(stmt) == IF stmt = <<>> THEN {} ELSE DOMAIN stmt[1]

\* A plausible slip: the frame is sorted newest first.
MutBeforeDescending(a, b) ==
    IF IsNaN(a["date"]) THEN FALSE
    ELSE IF IsNaN(b["date"]) THEN TRUE
    ELSE FGt(a["date"], b["date"])

\* sort_values("date"): ascending, rows without a date (NaN) last.
Before(a, b) ==
    IF IsNaN(a["date"]) THEN FALSE
    ELSE IF IsNaN(b["date"]) THEN TRUE
    ELSE FLt(a["date"], b["date"])

RECURSIVE Insert(_, _)
Insert(row, sorted) ==
    IF sorted = <<>> THEN <<row>>
    ELSE IF Before(row, Head(sorted)) THEN <<row>> \o sorted
    ELSE <<Head(sorted)>> \o Insert(row, Tail(sorted))

RECURSIVE SortByDate(_)
SortByDate(rows) ==
    IF rows = <<>> THEN <<>>
    ELSE Insert(Head(rows), SortByDate(Tail(rows)))

\* df.tail(2)
Tail2(rows) == IF Len(rows) <= 2 THEN rows ELSE SubSeq(rows, Len(rows) - 1, Len(rows))

\* None, or a frame.
None == [none |-> TRUE, rows |-> <<>>]
Frame(rows) == [none |-> FALSE, rows |-> rows]

\* A plausible slip: one fiscal year is taken for enough.
MutEnoughRowsOne(n) == n >= 1

\* df.shape[0] >= 2
EnoughRows(n) == n >= 2

\* The body of _two_years once the three requests have answered:
\* pd.concat(axis=1) aligns the statements by position and leaves NaN where a
\* statement is shorter; of columns with one name the first is kept; the rows
\* are sorted by date, then fillna(0).
_two_years(resp) ==
    LET inc == resp.inc
        bal == resp.bal
        cf == resp.cf
        n == Periods(resp)
        cols == Cols(inc) \cup Cols(bal) \cup Cols(cf)
        cell(stmt, i, x) == IF i <= Len(stmt) THEN stmt[i][x] ELSE NaN
        merged == [i \in 1..n |->
                     [x \in cols |->
                        IF x \in Cols(inc) THEN cell(inc, i, x)
                        ELSE IF x \in Cols(bal) THEN cell(bal, i, x)
                        ELSE cell(cf, i, x)]]
        sorted == SortByDate(merged)
        filled == [i \in 1..n |->
                     [x \in cols |-> IF IsNaN(sorted[i][x]) THEN Zero ELSE sorted[i][x]]]
    IN  IF inc = <<>> \/ bal = <<>> \/ cf = <<>> THEN None
        ELSE IF EnoughRows(n) THEN Frame(Tail2(filled))
        ELSE None

---------------------------------------------------------------------------
(* The classifier *)

\* CB_MODEL.predict_proba(feats)[0, 1]: the pretrained model is an artifact
\* outside the sources; it stands here as a fixed function of the vector
\* with values in [0, 1].
CB_predict_proba(fv) ==
    IF FGt(Field(fv, "TATA"), Zero) THEN Rat(3, 4) ELSE Rat(1, 4)

\* shap.TreeExplainer(CB_MODEL)(feats): one attribution per field.
CB_shap(fv) ==
    [i \in 1..Len(fv) |-> F(fv[i].name, IF fv[i].name = "TATA" THEN Rat(1, 4) ELSE Zero)]

---------------------------------------------------------------------------
(* predict *)

Tickers == {"AAPL", "MSFT"}

KnownMethods == {"CatBoost", "Beneish M-Score", "Piotroski F-Score"}

\* The method strings callers pass: the three keys and one that is none.
Methods == KnownMethods \cup {"Beneish"}

\* lru_cache(maxsize=128)
MaxCache == 128

NoFrame == [none |-> FALSE, rows |-> <<>>]
NoResult == [raised |-> "pending", value |-> <<>>]
NoneResult == Return([none |-> TRUE])

\* The dict predict returns.
ScoreResult(prob, shap, fv, extra) ==
    Return([none |-> FALSE, prob |-> prob, shap |-> shap, feats |-> fv, extra |-> extra])

NoneField == [none |-> TRUE]

\* The observer has recorded no call; no fetch is in flight elsewhere.
NoNote == [tkr |-> "", method |-> "", response |-> "", result |-> NoResult]
NoPending == [key |-> "", val |-> NoFrame, src |-> ""]

\* A plausible slip: the final else falls back to the classifier.
MutDispatchFallback(m, fv) ==
    IF m = "Beneish M-Score"
        THEN ScoreResult(NoneField, NoneField, fv,
                 ("M-Score" :> beneish_score(fv).value.score)
                 @@ ("flag" :> beneish_score(fv).value.flag))
    ELSE IF m = "Piotroski F-Score"
        THEN ScoreResult(NoneField, NoneField, fv,
                 ("F-Score" :> piotroski_score(fv).value.score)
                 @@ ("flag" :> piotroski_score(fv).value.flag))
    ELSE ScoreResult(CB_predict_proba(fv), CB_shap(fv), fv, NoneField)

\* A plausible slip: the rule-based branches fill prob from the classifier.
MutDispatchProbAlways(m, fv) ==
    IF m = "CatBoost"
        THEN ScoreResult(CB_predict_proba(fv), CB_shap(fv), fv, NoneField)
    ELSE IF m = "Beneish M-Score"
        THEN ScoreResult(CB_predict_proba(fv), NoneField, fv,
                 ("M-Score" :> beneish_score(fv).value.score)
                 @@ ("flag" :> beneish_score(fv).value.flag))
    ELSE IF m = "Piotroski F-Score"
        THEN ScoreResult(CB_predict_proba(fv), NoneField, fv,
                 ("F-Score" :> piotroski_score(fv).value.score)
                 @@ ("flag" :> piotroski_score(fv).value.flag))
    ELSE Raise("ValueError")

\* A plausible slip: a rule scorer writes to the row it is given (here it
\* clears TATA), and the vector handed back is the changed one.
MutDispatchTouchesFeats(m, fv) ==
    LET touched == [i \in 1..Len(fv) |->
                      IF fv[i].name = "TATA" THEN F("TATA", Zero) ELSE fv[i]]
    IN  IF m = "CatBoost"
            THEN ScoreResult(CB_predict_proba(fv), CB_shap(fv), fv, NoneField)
        ELSE IF m = "Beneish M-Score"
            THEN ScoreResult(NoneField, NoneField, touched,
                     ("M-Score" :> beneish_score(fv).value.score)
                     @@ ("flag" :> beneish_score(fv).value.flag))
        ELSE IF m = "Piotroski F-Score"
            THEN ScoreResult(NoneField, NoneField, touched,
                     ("F-Score" :> piotroski_score(fv).value.score)
                     @@ ("flag" :> piotroski_score(fv).value.flag))
        ELSE Raise("ValueError")

\* A plausible slip: column 0 of predict_proba, the negative class.
MutDispatchNegativeClass(m, fv) ==
    IF m = "CatBoost"
        THEN ScoreResult(FSub(One, CB_predict_proba(fv)), CB_shap(fv), fv, NoneField)
    ELSE IF m = "Beneish M-Score"
        THEN ScoreResult(NoneField, NoneField, fv,
                 ("M-Score" :> beneish_score(fv).value.score)
                 @@ ("flag" :> beneish_score(fv).value.flag))
    ELSE IF m = "Piotroski F-Score"
        THEN ScoreResult(NoneField, NoneField, fv,
                 ("F-Score" :> piotroski_score(fv).value.score)
                 @@ ("flag" :> piotroski_score(fv).value.flag))
    ELSE Raise("ValueError")

\* The if / elif / elif / else of predict over method.
Dispatch(m, fv) ==
    IF m = "CatBoost"
        THEN ScoreResult(CB_predict_proba(fv), CB_shap(fv), fv, NoneField)
    ELSE IF m = "Beneish M-Score"
        THEN ScoreResult(NoneField, NoneField, fv,
                 ("M-Score" :> beneish_score(fv).value.score)
                 @@ ("flag" :> beneish_score(fv).value.flag))
    ELSE IF m = "Piotroski F-Score"
        THEN ScoreResult(NoneField, NoneField, fv,
                 ("F-Score" :> piotroski_score(fv).value.score)
                 @@ ("flag" :> piotroski_score(fv).value.flag))
    ELSE Raise("ValueError")

\* The cache is a list of entries, least recently used first.  src is a
\* history field: the scenario whose response the entry was computed from.
CacheKeys == {cache[i].key : i \in 1..Len(cache)}
CacheAt(t) == CHOOSE i \in 1..Len(cache) : cache[i].key = t
Without(i) == SubSeq(cache, 1, i - 1) \o SubSeq(cache, i + 1, Len(cache))

\* predict from the value of _two_years on: the None check, the ratios and
\* the branch for the method.
Scored(df, m) ==
    IF df.none THEN NoneResult
    ELSE LET r == _ratios(df.rows)
         IN  IF r.raised # "none" THEN r ELSE Dispatch(m, r.value)

\* predict as a function of the provider's response and the method: what a
\* call returns or raises when _two_years asks the provider (lines 137-165
\* with the body of _two_years in place of the cached call).
predict(resp, m) ==
    IF resp.status = "down" THEN Raise("ConnectionError")
    ELSE Scored(_two_years(resp), m)

Init ==
    /\ pc = "idle"
    /\ inp = <<>> /\ out = NoOut
    /\ provider \in [Tickers -> Scenarios]
    /\ cache = <<>>
    /\ tkr = "" /\ method = ""
    /\ df2 = NoFrame /\ feats = <<>> /\ result = NoResult
    /\ seen = "" /\ queried = FALSE
    /\ ratioCalls = 0 /\ scorerCalls = 0
    /\ fetchCalls = 0 /\ fetched = {} /\ cache0 = <<>> /\ noted = NoNote
    /\ pending = NoPending

\* The provider's data for a ticker changes (a new filing, an outage).
\* _two_years reads the provider in one step and predict runs one call at a
\* time, so a change during a call acts as the same change after it: changes
\* are taken between calls.
ProviderUpdate(t, sc) ==
    /\ pc = "idle"
    /\ provider[t] # sc
    /\ provider' = [provider EXCEPT ![t] = sc]
    /\ UNCHANGED <<pc, inp, out, fetchCalls, fetched, cache0, watchVars, cache, tkr, method, df2,
                   feats, result, seen,
                   queried, ratioCalls, scorerCalls>>

\* A caller invokes predict(t, m).
Call(t, m) ==
    /\ pc = "idle"
    /\ pc' = "fetch"
    /\ tkr' = t /\ method' = m
    /\ df2' = NoFrame /\ feats' = <<>> /\ result' = NoResult
    /\ seen' = "" /\ queried' = FALSE
    /\ ratioCalls' = 0 /\ scorerCalls' = 0
    /\ fetchCalls' = 0
    /\ UNCHANGED fetched
    /\ cache0' = cache
    /\ UNCHANGED <<inp, out, provider, cache, watchVars>>

\* df2 = _two_years(tkr), answered by the cache.
FetchHit ==
    /\ pc = "fetch"
    /\ tkr \in CacheKeys
    /\ LET i == CacheAt(tkr)
       IN  /\ df2' = cache[i].val
           /\ seen' = cache[i].src
           /\ cache' = Without(i) \o <<cache[i]>>
    /\ pc' = "check"
    /\ fetchCalls' = fetchCalls + 1
    /\ UNCHANGED <<inp, out, fetched, cache0, watchVars, provider, tkr, method, feats,
                   result, queried, ratioCalls, scorerCalls>>

\* History of the provider queries of one ticker: the first query that
\* returned without exception, with what _two_years made of it, and every
\* query made for the ticker after that one, whatever its outcome.
Outcome(resp) ==
    IF resp.status = "down" THEN "raised"
    ELSE IF _two_years(resp).none THEN "none" ELSE "frame"

Fetched(t) == \E r \in fetched : r.key = t

Recorded(t, resp) ==
    IF Fetched(t)
    THEN fetched \cup {[key |-> t, nth |-> "again", outcome |-> Outcome(resp)]}
    ELSE IF resp.status = "down" THEN fetched
    ELSE fetched \cup {[key |-> t, nth |-> "first", outcome |-> Outcome(resp)]}

\* A plausible slip: a None is not worth keeping, only frames are stored.
MutStoreFramesOnly(entry) ==
    IF entry.val.none THEN cache
    ELSE IF Len(cache) >= MaxCache THEN Tail(cache) \o <<entry>>
    ELSE cache \o <<entry>>

\* lru_cache stores the value the function returned, None included; the
\* least recently used entry leaves a full cache.
Store(entry) ==
    IF Len(cache) >= MaxCache THEN Tail(cache) \o <<entry>>
    ELSE cache \o <<entry>>

\* df2 = _two_years(tkr), answered by the provider: the value is stored,
\* and the least recently used entry leaves a full cache; a request that
\* raises stores nothing and ends predict with the exception.
FetchMiss ==
    /\ pc = "fetch"
    /\ tkr \notin CacheKeys
    /\ queried' = TRUE
    /\ fetchCalls' = fetchCalls + 1
    /\ seen' = provider[tkr]
    /\ fetched' = Recorded(tkr, Response(provider[tkr]))
    /\ LET resp == Response(provider[tkr])
           entry == [key |-> tkr, val |-> _two_years(resp), src |-> provider[tkr]]
       IN  IF resp.status = "down"
           THEN /\ result' = Raise("ConnectionError")
                /\ pc' = "done"
                /\ UNCHANGED <<df2, cache>>
           ELSE /\ df2' = entry.val
                /\ cache' = Store(entry)
                /\ pc' = "check"
                /\ UNCHANGED result
    /\ UNCHANGED <<inp, out, cache0, watchVars, provider, tkr, method, feats,
                   ratioCalls, scorerCalls>>

\* A plausible slip: a None is taken for a failed fetch and fetched again.
MutRetryOnNone(df) == IF df.none THEN "fetch" ELSE "ratios"

\* Where predict goes after the None check: out of the call, or on to
\* _ratios; never back to the fetch.
AfterCheck(df) == IF df.none THEN "done" ELSE "ratios"

\* if df2 is None: return None
CheckNone ==
    /\ pc = "check"
    /\ pc' = AfterCheck(df2)
    /\ result' = IF df2.none THEN NoneResult ELSE result
    /\ UNCHANGED <<inp, out, fetchCalls, fetched, cache0, watchVars, provider, cache, tkr, method, df2, feats, seen,
                   queried, ratioCalls, scorerCalls>>

\* feats = _ratios(df2); r = feats.iloc[0]
Ratios ==
    /\ pc = "ratios"
    /\ ratioCalls' = ratioCalls + 1
    /\ LET r == _ratios(df2.rows)
       IN  IF r.raised = "none"
           THEN feats' = r.value /\ pc' = "dispatch" /\ result' = result
           ELSE feats' = feats /\ pc' = "done" /\ result' = r
    /\ UNCHANGED <<inp, out, fetchCalls, fetched, cache0, watchVars, provider, cache, tkr, method, df2, seen, queried,
                   scorerCalls>>

\* The branch for method: a ScoreResult is returned or ValueError raised.
Score ==
    /\ pc = "dispatch"
    /\ result' = Dispatch(method, feats)
    /\ scorerCalls' = IF result'.raised = "none" THEN scorerCalls + 1 ELSE scorerCalls
    /\ pc' = "done"
    /\ UNCHANGED <<inp, out, fetchCalls, fetched, cache0, watchVars, provider, cache, tkr, method, df2, feats, seen,
                   queried, ratioCalls>>

\* The caller has the result; the call's frame is gone.
Finish ==
    /\ pc = "done"
    /\ pc' = "idle"
    /\ tkr' = "" /\ method' = ""
    /\ df2' = NoFrame /\ feats' = <<>> /\ result' = NoResult
    /\ seen' = "" /\ queried' = FALSE
    /\ ratioCalls' = 0 /\ scorerCalls' = 0
    /\ fetchCalls' = 0
    /\ UNCHANGED fetched
    /\ cache0' = <<>>
    /\ UNCHANGED <<inp, out, provider, cache, watchVars>>

Next ==
    \/ \E t \in Tickers, sc \in Scenarios : ProviderUpdate(t, sc)
    \/ \E t \in Tickers, m \in Methods : Call(t, m)
    \/ FetchHit
    \/ FetchMiss
    \/ CheckNone
    \/ Ratios
    \/ Score
    \/ Finish

Spec == Init /\ [][Next]_vars

---------------------------------------------------------------------------
(* Claims about predict *)

\* The call's statement data came from a provider response (asked in this
\* call, or in the earlier call that filled the cache) of at most one period.
FewerThanTwoPeriods ==
    /\ seen # ""
    /\ Response(seen).status = "ok"
    /\ Periods(Response(seen)) <= 1

\* C9: for a ticker whose provider returns 0 or 1 fiscal periods, predict
\* returns None whatever the method, and neither _ratios nor a scorer nor the
\* classifier is invoked in that call.
C9_InsufficientHistory ==
    pc = "done" /\ FewerThanTwoPeriods =>
        /\ result = NoneResult
        /\ ratioCalls = 0
        /\ scorerCalls = 0

\* C9 witness: the provider was asked in this classifier call, answered with
\* one fiscal period, and predict returned None.
C9_Witness ==
    /\ pc = "done"
    /\ queried
    /\ method = "CatBoost"
    /\ Response(seen).status = "ok"
    /\ Periods(Response(seen)) = 1
    /\ result = NoneResult

\* C10 as claimed: predict with an unrecognised method raises an error for
\* every ticker and provider response, fewer than two periods included; it
\* never returns None and never a ScoreResult.
C10_UnknownMethodAlwaysRaises ==
    pc = "done" /\ method \notin KnownMethods => result.raised # "none"

\* C10 as amended: predict with an unrecognised method never returns a
\* ScoreResult and never runs a method in its place: once the fetch has
\* yielded two periods and the Ratio Engine has returned it raises ValueError;
\* when the fetch yields None it returns None, as for every method; otherwise
\* the error of the fetch or of the Ratio Engine is what it raises.
C10_UnknownMethodAmended ==
    pc = "done" /\ method \notin KnownMethods =>
        /\ scorerCalls = 0
        /\ result.raised = "none" => (result = NoneResult /\ df2.none)
        /\ df2.none => result = NoneResult
        /\ feats # <<>> => result = Raise("ValueError")
        /\ result.raised \in {"none", "ValueError", "ZeroDivisionError", "ConnectionError"}

\* C10 witness: two periods were fetched, the FeatureVector was computed, and
\* the unrecognised method ended the call with ValueError.
C10_Witness ==
    /\ pc = "done"
    /\ method \notin KnownMethods
    /\ ~df2.none
    /\ feats # <<>>
    /\ result = Raise("ValueError")

\* The statement data the call's score rests on, as predict computes the
\* vector from it.
FeatsOfFrame == _ratios(df2.rows).value

\* C11: every result of predict other than None has the fields prob, shap,
\* feats and extra; prob and shap are populated and extra is None exactly when
\* the method is the classifier; for the Beneish and Piotroski methods prob
\* and shap are None and extra holds exactly that method's score and flag;
\* feats is the FeatureVector the score was computed from.
C11_ScoreResultShape ==
    pc = "done" /\ result.raised = "none" /\ ~result.value.none =>
        LET v == result.value
        IN  /\ DOMAIN v = {"none", "prob", "shap", "feats", "extra"}
            /\ method \in KnownMethods
            /\ v.feats = feats
            /\ v.feats = FeatsOfFrame
            /\ (method = "CatBoost") <=>
                   (v.prob # NoneField /\ v.shap # NoneField /\ v.extra = NoneField)
            /\ method = "CatBoost" =>
                   /\ v.prob = CB_predict_proba(v.feats)
                   /\ v.shap = CB_shap(v.feats)
            /\ method = "Beneish M-Score" =>
                   /\ v.prob = NoneField /\ v.shap = NoneField
                   /\ DOMAIN v.extra = {"M-Score", "flag"}
                   /\ v.extra["M-Score"] = beneish_score(v.feats).value.score
                   /\ v.extra["flag"] = beneish_score(v.feats).value.flag
            /\ method = "Piotroski F-Score" =>
                   /\ v.prob = NoneField /\ v.shap = NoneField
                   /\ DOMAIN v.extra = {"F-Score", "flag"}
                   /\ v.extra["F-Score"] = piotroski_score(v.feats).value.score
                   /\ v.extra["flag"] = piotroski_score(v.feats).value.flag

\* C11 witness: a Beneish call returned a ScoreResult whose extra holds the
\* M-Score and the flag and whose prob and shap are None.
C11_Witness ==
    /\ pc = "done"
    /\ method = "Beneish M-Score"
    /\ result.raised = "none"
    /\ ~result.value.none
    /\ result.value.prob = NoneField
    /\ DOMAIN result.value.extra = {"M-Score", "flag"}
    /\ result.value.feats = feats

\* C13: a ScoreResult is never cached: every predict invocation recomputes
\* from raw statement data, so the result of each call is computed from the
\* statement provider's response at the time of that call, also when an
\* earlier predict call for the same ticker saw different provider data.
C13_FromResponseAtCallTime ==
    pc = "done" => result = predict(Response(provider[tkr]), method)

---------------------------------------------------------------------------
(* Repeated calls: an observer and a long run of other tickers *)

\* The observer records the call that has just ended: its arguments, the
\* response the provider gives for its ticker, and what it returned or
\* raised.  One call is recorded per behaviour.
Note ==
    /\ pc = "done"
    /\ noted = NoNote
    /\ noted' = [tkr |-> tkr, method |-> method, response |-> provider[tkr],
                 result |-> result]
    /\ UNCHANGED <<pc, inp, out, provider, cache, tkr, method, df2, feats,
                   result, seen, queried, ratioCalls, scorerCalls, fetchCalls, fetched,
                   cache0, pending>>

\* Tickers beyond the two of the model, as many as the cache holds; the
\* provider has no statements for them.
OtherTickers == [i \in 1..MaxCache |-> ToString(i)]

\* predict is called once for each of the other tickers, one call after the
\* other, each returning None.  Whatever the cache held, it then holds these
\* MaxCache entries in call order: every call either moves its entry to the
\* most recent place or adds it and drops the least recently used one.  With
\* all of them in the cache every call is a hit; otherwise the first of them
\* is not there (entries leave the cache oldest first), its call drops the
\* next one, and so on: every call queries the provider.
Flood ==
    /\ pc = "idle"
    /\ cache' = [i \in 1..MaxCache |->
                    [key |-> OtherTickers[i], val |-> None, src |-> "empty"]]
    /\ fetched' =
           IF \A i \in 1..MaxCache : OtherTickers[i] \in CacheKeys
           THEN fetched
           ELSE fetched \cup
                {[key |-> OtherTickers[i],
                  nth |-> IF Fetched(OtherTickers[i]) THEN "again" ELSE "first",
                  outcome |-> "none"] : i \in 1..MaxCache}
    /\ UNCHANGED <<pc, inp, out, provider, tkr, method, df2, feats, result, seen,
                   queried, ratioCalls, scorerCalls, fetchCalls, cache0,
                   watchVars>>

\* The provider's answers and the method in the runs of repeated calls.
DetScenarios == {"empty", "two_desc"}
DetMethods == {"Piotroski F-Score"}

InitDet ==
    /\ Init
    /\ \A t \in Tickers : provider[t] \in DetScenarios

NextDet ==
    \/ \E t \in Tickers, sc \in DetScenarios : ProviderUpdate(t, sc)
    \/ \E t \in Tickers, m \in DetMethods : Call(t, m)
    \/ FetchHit
    \/ FetchMiss
    \/ CheckNone
    \/ Ratios
    \/ Score
    \/ Note
    \/ Finish
    \/ Flood

SpecDet == InitDet /\ [][NextDet]_vars

\* C12: determinism: two calls predict(ticker, method) made with identical
\* statement-provider responses return identical results, whatever other
\* predict calls happened before or between them.  The earlier call is the
\* one the observer recorded; the later one has just ended.
C12_Determinism ==
    /\ pc = "done"
    /\ noted # NoNote
    /\ noted.tkr = tkr
    /\ noted.method = method
    /\ noted.response = provider[tkr]
    => result = noted.result

---------------------------------------------------------------------------
(* Concurrent calls: a second thread inside _two_years *)

\* Another thread's predict(t, ..) is inside _two_years(t): the lookup
\* missed and the provider has answered; the answer is not stored yet.  The
\* wrapper of lru_cache runs the function outside its lock.
OtherFetch(t) ==
    /\ pending = NoPending
    /\ t \notin CacheKeys
    /\ Response(provider[t]).status = "ok"
    /\ pending' = [key |-> t, val |-> _two_years(Response(provider[t])),
                   src |-> provider[t]]
    /\ fetched' = Recorded(t, Response(provider[t]))
    /\ UNCHANGED <<pc, inp, out, provider, cache, tkr, method, df2, feats,
                   result, seen, queried, ratioCalls, scorerCalls, fetchCalls,
                   cache0, noted>>

\* The other thread stores its value and goes on with it.  A key that was
\* stored in the meantime is left as it is.
OtherStore ==
    /\ pending # NoPending
    /\ cache' = IF pending.key \in CacheKeys THEN cache
                ELSE IF Len(cache) >= MaxCache THEN Tail(cache) \o <<pending>>
                ELSE cache \o <<pending>>
    /\ pending' = NoPending
    /\ UNCHANGED <<pc, inp, out, provider, tkr, method, df2, feats, result,
                   seen, queried, ratioCalls, scorerCalls, fetchCalls, fetched, cache0,
                   noted>>

NextConc ==
    \/ \E t \in Tickers, sc \in DetScenarios : ProviderUpdate(t, sc)
    \/ \E t \in Tickers, m \in DetMethods : Call(t, m)
    \/ FetchHit
    \/ FetchMiss
    \/ CheckNone
    \/ Ratios
    \/ Score
    \/ Finish
    \/ \E t \in Tickers : OtherFetch(t)
    \/ OtherStore

SpecConc == InitDet /\ [][NextConc]_vars

\* What the call in progress returns when no other call runs beside it: the
\* cache is as the call found it and the provider answers as it does now.
Alone ==
    IF \E i \in 1..Len(cache0) : cache0[i].key = tkr
    THEN Scored(cache0[CHOOSE i \in 1..Len(cache0) : cache0[i].key = tkr].val, method)
    ELSE predict(Response(provider[tkr]), method)

\* C14: concurrent predict calls are independent and share no mutable state:
\* under every interleaving of two or more predict calls, each call returns
\* the result it would return if it ran alone against the same provider
\* responses.
C14_Independent ==
    pc = "done" => result = Alone

---------------------------------------------------------------------------
(* Claims about the ratio engine, continued *)

\* The twelve line items of the specification's concrete scenario.
ScenarioItems == Items \ {"ebit"}

\* The frame is the concrete scenario: prior period first, current period
\* last, with or without an ebit column.
IsScenario ==
    /\ Len(inp) = 2
    /\ \A k \in ScenarioItems \cup {"date"} :
          /\ k \in DOMAIN inp[1] /\ inp[1][k] = GrowP[k]
          /\ k \in DOMAIN inp[2] /\ inp[2][k] = GrowC[k]

\* C15: for the concrete PeriodPair of the specification _ratios gives
\* DSRI = 9/8 and SGI = 10/9, and piotroski_score awards the points for the
\* ROA increase, the positive CFO, the lower leverage and no dilution
\* (unchanged shares earn point 9); the current ratio is unchanged at 2, so
\* that eight of the nine points are awarded.
C15_ConcreteScenario ==
    pc = "done" /\ IsScenario =>
        /\ out.raised = "none"
        /\ Field(out.value, "DSRI") = Rat(9, 8)
        /\ Field(out.value, "SGI") = Rat(10, 9)
        /\ FGt(Field(out.value, "ROA"), Field(out.value, "Prev_ROA"))
        /\ FGt(Field(out.value, "CFO"), Zero)
        /\ FLt(Field(out.value, "leverage"), Field(out.value, "Prev_leverage"))
        /\ Field(out.value, "Shares") = Field(out.value, "Prev_Shares")
        /\ Field(out.value, "CurrRatio") = Field(out.value, "Prev_CR")
        /\ piotroski_score(out.value) = Return([score |-> 8, flag |-> FALSE])

\* C15 witness: _ratios has returned for the scenario as the specification
\* gives it, without an ebit column.
C15_Witness ==
    /\ pc = "done"
    /\ IsScenario
    /\ "ebit" \notin DOMAIN inp[2]
    /\ out.raised = "none"
    /\ Field(out.value, "DSRI") = Rat(9, 8)

\* C16: the names of the FeatureVector's fields and their order are the same
\* fixed sequence of 25 names for every PeriodPair and every call, whichever
\* line items are present and whatever the values.
C16_FieldOrder ==
    pc = "done" /\ out.raised = "none" =>
        /\ Len(out.value) = 25
        /\ [i \in 1..Len(out.value) |-> out.value[i].name] = FeatureNames

\* C16 witness: a frame without the netReceivables column, for which DSRI is
\* 0, still yields the 25 names with DSRI first.
C16_Witness ==
    /\ pc = "done"
    /\ out.raised = "none"
    /\ "netReceivables" \notin DOMAIN inp[2]
    /\ Len(out.value) = 25
    /\ out.value[1] = F("DSRI", Zero)

---------------------------------------------------------------------------
(* Claims about the statement fetch *)

\* The response holds two records in each statement, in one order.
TwoRecords(sc) ==
    /\ sc # ""
    /\ LET resp == Response(sc)
       IN  /\ resp.status = "ok"
           /\ Len(resp.inc) = 2 /\ Len(resp.bal) = 2 /\ Len(resp.cf) = 2
           /\ \A i \in 1..2 : /\ resp.bal[i]["date"] = resp.inc[i]["date"]
                              /\ resp.cf[i]["date"] = resp.inc[i]["date"]

\* The row carries the values of the statement's record of the same date.
SameYear(row, stmt) ==
    \E i \in 1..Len(stmt) :
        /\ stmt[i]["date"] = row["date"]
        /\ \A x \in DOMAIN stmt[i] : x \in DOMAIN row /\ row[x] = stmt[i][x]

\* C17: for either order in which the provider returns the two fiscal-year
\* records, the period used as current (c) is the record with the later date
\* and the period used as prior (p) the one with the earlier date, and the
\* income, balance-sheet and cash-flow values of each period are those of
\* that fiscal year.
C17_Chronological ==
    pc \in {"check", "ratios", "dispatch", "done"} /\ TwoRecords(seen) =>
        /\ ~df2.none
        /\ Len(df2.rows) = 2
        /\ LET c == iloc(df2.rows, -1)
               p == iloc(df2.rows, -2)
               resp == Response(seen)
           IN  /\ FGt(c["date"], p["date"])
               /\ \A row \in {c, p} :
                     /\ SameYear(row, resp.inc)
                     /\ SameYear(row, resp.bal)
                     /\ SameYear(row, resp.cf)

\* C17 witness: the provider answered newest first in this call, and the
\* vector was computed with the later record as the current period.
C17_Witness ==
    /\ pc = "done"
    /\ queried
    /\ seen = "two_desc"
    /\ Response(seen).inc[1]["date"] = Int2V(2023)
    /\ iloc(df2.rows, -1)["date"] = Int2V(2023)
    /\ iloc(df2.rows, -2)["date"] = Int2V(2022)
    /\ feats = _ratios(<<EvenP, EvenC>>).value

---------------------------------------------------------------------------
(* Claims about single fields of the vector *)

\* C18: EBIT_to_assets is div(ebit_c, totalAssets_c) when the current period
\* has an ebit line item; when the item is absent netIncome_c is used in its
\* place, so that EBIT_to_assets equals the profitability field.
C18_EbitFallback ==
    pc = "done" /\ out.raised = "none" =>
        LET c == CurRow
            at == g(c, "totalAssets")
        IN  /\ "ebit" \in DOMAIN c =>
                  Field(out.value, "EBIT_to_assets") = SpecDivide(c["ebit"], at, Zero)
            /\ "ebit" \notin DOMAIN c =>
                  /\ Field(out.value, "EBIT_to_assets")
                        = SpecDivide(g(c, "netIncome"), at, Zero)
                  /\ Field(out.value, "EBIT_to_assets")
                        = Field(out.value, "profitability")

\* C18 witness: no ebit column, a net income that is not zero: EBIT_to_assets
\* is the profitability, 120/800.
C18_Witness ==
    /\ pc = "done"
    /\ out.raised = "none"
    /\ "ebit" \notin DOMAIN CurRow
    /\ Field(out.value, "EBIT_to_assets") = Rat(3, 20)
    /\ Field(out.value, "profitability") = Rat(3, 20)

\* The gross-margin ratio and the depreciation rate of a period.
GrossMarginOf(row) ==
    FDiv(FSub(g(row, "revenue"), g(row, "costOfRevenue")), g(row, "revenue"))
DepRateOf(row) ==
    FDiv(g(row, "depreciationAndAmortization"),
         FAdd(g(row, "depreciationAndAmortization"),
              g(row, "propertyPlantEquipmentNet")))

\* C19: GMI and DEPI are oriented prior over current: with positive gross
\* margins in both periods GMI > 1 exactly when the current gross-margin
\* ratio is lower than the prior one, and with positive depreciation rates
\* DEPI > 1 exactly when the current rate dep/(dep + PPE) is lower than the
\* prior one.
C19_PriorOverCurrent ==
    pc = "done" /\ out.raised = "none" =>
        /\ FGt(GrossMarginOf(CurRow), Zero) /\ FGt(GrossMarginOf(PrevRow), Zero) =>
              (FGt(Field(out.value, "GMI"), One)
                  <=> FLt(GrossMarginOf(CurRow), GrossMarginOf(PrevRow)))
        /\ FGt(DepRateOf(CurRow), Zero) /\ FGt(DepRateOf(PrevRow), Zero) =>
              (FGt(Field(out.value, "DEPI"), One)
                  <=> FLt(DepRateOf(CurRow), DepRateOf(PrevRow)))

\* C19 witness: positive margins and rates, a current margin below the prior
\* one with GMI above 1, and a current depreciation rate above the prior one
\* with DEPI below 1.
C19_Witness ==
    /\ pc = "done"
    /\ out.raised = "none"
    /\ FGt(GrossMarginOf(CurRow), Zero)
    /\ FLt(GrossMarginOf(CurRow), GrossMarginOf(PrevRow))
    /\ FGt(Field(out.value, "GMI"), One)
    /\ FGt(DepRateOf(PrevRow), Zero)
    /\ FGt(DepRateOf(CurRow), DepRateOf(PrevRow))
    /\ FLt(Field(out.value, "DEPI"), One)

\* The fields _ratios computes from the current period alone.
SinglePeriodFields ==
    {"TATA", "leverage", "profitability", "liquidity", "EBIT_to_assets",
     "soft_asset_ratio"}

\* Prior periods other than the one of the frame under analysis: those of
\* either profile, as they are or with one item zeroed, over the frame's
\* columns.
PriorZeros == {{}, {"netReceivables"}, {"netIncome"}, {"totalLiabilities"}}

OtherPriors ==
    LET absent == (Items \cup {"date"}) \ DOMAIN CurRow
    IN  {Drop(Zeroed(prof[1], Z), absent) : prof \in Profiles, Z \in PriorZeros}
            \ {PrevRow}

\* C20: TATA and the five supplementary ratios are single-period: for any
\* two PeriodPairs with the same current period and different prior periods
\* _ratios returns equal values for these six fields.
C20_SinglePeriod ==
    pc = "done" /\ out.raised = "none" =>
        \A q \in OtherPriors :
            LET other == _ratios(<<q, CurRow>>)
            IN  other.raised = "none" =>
                    \A x \in SinglePeriodFields :
                        Field(other.value, x) = Field(out.value, x)

\* C20 witness: a second pair with the same current period and another
\* prior period gives another DSRI and the same six fields.
C20_Witness ==
    /\ pc = "done"
    /\ out.raised = "none"
    /\ \E q \in OtherPriors :
          LET other == _ratios(<<q, CurRow>>)
          IN  /\ other.raised = "none"
              /\ Field(other.value, "DSRI") # Field(out.value, "DSRI")
              /\ \A x \in SinglePeriodFields :
                    Field(other.value, x) = Field(out.value, x)

---------------------------------------------------------------------------
(* The rule scorers inside predict, applied to a vector drawn at Init *)

\* The fields that vary in the vectors handed to the two rule branches.
ScorerFields == {"DSRI", "TATA", "ROA", "CFO", "Prev_Shares"}

RuleMethods == {"Beneish M-Score", "Piotroski F-Score"}

InitScorers ==
    /\ pc = "ready"
    /\ \E f \in [ScorerFields -> FeatVals] : inp = MkFV(f)
    /\ out = NoOut
    /\ Parked

\* predict's branch for a rule method, on the vector of the Ratio Engine.
RunRule(m) ==
    /\ pc = "ready"
    /\ out' = Dispatch(m, inp)
    /\ pc' = IF m = "Beneish M-Score" THEN "beneish" ELSE "piotroski"
    /\ UNCHANGED <<inp, predictVars>>

NextScorers == \E m \in RuleMethods : RunRule(m)

SpecScorers == InitScorers /\ [][NextScorers]_vars

\* C21: both rule scorers are total and read-only over a FeatureVector: for
\* every FeatureVector with finite fields beneish_score and piotroski_score
\* return a (score, flag) pair without raising and leave every field of the
\* vector unchanged, so that the feats predict returns is the vector the
\* Ratio Engine produced.
C21_ScorersTotalReadOnly ==
    pc \in {"beneish", "piotroski"} =>
        /\ \A i \in 1..Len(inp) : IsFinite(inp[i].val)
        /\ beneish_score(inp).raised = "none"
        /\ IsFinite(beneish_score(inp).value.score)
        /\ beneish_score(inp).value.flag \in BOOLEAN
        /\ piotroski_score(inp).raised = "none"
        /\ piotroski_score(inp).value.score \in 0..9
        /\ piotroski_score(inp).value.flag \in BOOLEAN
        /\ out.raised = "none"
        /\ out.value.feats = inp
        /\ pc = "beneish" =>
              out.value.extra["M-Score"] = beneish_score(inp).value.score
        /\ pc = "piotroski" =>
              out.value.extra["F-Score"] = piotroski_score(inp).value.score

\* C21 witness: the Piotroski branch has returned for a vector with a
\* negative TATA, and the vector handed back still has it.
C21_Witness ==
    /\ pc = "piotroski"
    /\ out.raised = "none"
    /\ Field(inp, "TATA") = Int2V(-1)
    /\ Field(out.value.feats, "TATA") = Int2V(-1)
    /\ out.value.extra["F-Score"] \in 0..9

---------------------------------------------------------------------------
(* Claims about the statement fetch, continued *)

\* The response was served, and one of its statements has fewer than two
\* fiscal-year records.
SomeStatementShort(sc) ==
    /\ sc # ""
    /\ LET resp == Response(sc)
       IN  /\ resp.status = "ok"
           /\ Len(resp.inc) < 2 \/ Len(resp.bal) < 2 \/ Len(resp.cf) < 2

\* C22: the statement fetch yields a PeriodPair only when two fiscal years
\* of data exist in all three statements: if the income statement, the
\* balance sheet or the cash-flow statement has fewer than two records,
\* _two_years returns None, even when another statement has two.
C22_AllThreeStatements ==
    pc \in {"check", "ratios", "dispatch", "done"} /\ SomeStatementShort(seen)
        => df2.none

---------------------------------------------------------------------------
(* Claims about the order of steps in predict *)

\* C23: each predict call performs exactly one statement fetch for its
\* ticker (one call of _two_years), which completes before any ratio
\* computation or scoring starts, and the fetch is never retried within a
\* call, neither after a None result nor after a failure.
C23_OneFetchFirst ==
    /\ pc \in {"idle", "fetch"} => fetchCalls = 0
    /\ pc \in {"check", "ratios", "dispatch", "done"} => fetchCalls = 1
    /\ fetchCalls = 0 => ratioCalls = 0 /\ scorerCalls = 0
    /\ pc = "done" /\ (result = NoneResult \/ result.raised # "none") => fetchCalls = 1
    /\ pc = "done" /\ result = Raise("ConnectionError") =>
          queried /\ ratioCalls = 0 /\ scorerCalls = 0

\* C23 witness: the fetch failed, and the call ended with the failure after
\* its one fetch.
C23_Witness ==
    /\ pc = "done"
    /\ result = Raise("ConnectionError")
    /\ fetchCalls = 1
    /\ ratioCalls = 0

---------------------------------------------------------------------------
(* Claims about the classifier branch *)

\* C24: for the classifier method predict passes the FeatureVector, in its
\* fixed field order, to the pretrained classifier once and returns as prob
\* the classifier's positive-class probability for that vector, a value in
\* [0, 1], together with one attribution value per field of the vector.
C24_ClassifierBranch ==
    pc = "done" /\ method = "CatBoost" /\ result.raised = "none"
                /\ ~result.value.none =>
        LET v == result.value
        IN  /\ scorerCalls = 1
            /\ [i \in 1..Len(v.feats) |-> v.feats[i].name] = FeatureNames
            /\ v.prob = CB_predict_proba(v.feats)
            /\ IsNum(v.prob) /\ FLe(Zero, v.prob) /\ FLe(v.prob, One)
            /\ Len(v.shap) = Len(v.feats)
            /\ \A i \in 1..Len(v.shap) :
                  v.shap[i].name = v.feats[i].name /\ IsNum(v.shap[i].val)

\* C24 witness: a classifier call returned a probability of 3/4 for a
\* vector with a positive TATA, with 25 attributions.
C24_Witness ==
    /\ pc = "done"
    /\ method = "CatBoost"
    /\ result.raised = "none"
    /\ ~result.value.none
    /\ FGt(Field(result.value.feats, "TATA"), Zero)
    /\ result.value.prob = Rat(3, 4)
    /\ Len(result.value.shap) = 25

---------------------------------------------------------------------------
(* The Fraud Detection tab: _impact *)

\* Series.abs() on a float.
FAbs(a) == IF IsNum(a) THEN Rat(Abs(a.n), a.d) ELSE IF IsInf(a) THEN PInf ELSE a

\* A plausible slip: the frame is sorted by the signed attribution.
MutSortKeyShap(row) == row.shap

\* sort_values("abs", ...): the column the rows are ordered by.
SortKey(row) == row.abs

\* sort_values(..., ascending=False): larger keys first.  The default sort
\* of pandas is not a stable one, so the order of rows with equal keys is
\* the sort routine's own: `ties` says whether a row goes before or after
\* the rows of equal key already placed.
RECURSIVE InsertDesc(_, _, _)
InsertDesc(row, sorted, ties) ==
    IF sorted = <<>> THEN <<row>>
    ELSE IF FGt(SortKey(row), SortKey(Head(sorted)))
            \/ (ties = "before" /\ SortKey(row) = SortKey(Head(sorted)))
         THEN <<row>> \o sorted
    ELSE <<Head(sorted)>> \o InsertDesc(row, Tail(sorted), ties)

RECURSIVE sort_values(_, _)
sort_values(rows, ties) ==
    IF rows = <<>> THEN <<>>
    ELSE InsertDesc(Head(rows), sort_values(Tail(rows), ties), ties)

\* def _impact(shap_arr, feat_row)
_impact(shap_arr, feat_row, ties) ==
    LET df == [i \in 1..Len(feat_row) |->
                 [feature |-> feat_row[i].name,
                  value |-> feat_row[i].val,
                  shap |-> shap_arr[i],
                  abs |-> FAbs(shap_arr[i])]]
    IN  sort_values(df, ties)

\* top10 = df_imp.head(10)
TopN == 10

head(rows, n) == SubSeq(rows, 1, IF n < Len(rows) THEN n ELSE Len(rows))

MaxShap == 2

\* The attributions: a fixed pattern of -1, 0 and 1 with many equal
\* magnitudes, and four positions that range over -MaxShap..MaxShap.
ShapAt == {1, 5, 11, 25}
ShapArrays ==
    {[i \in 1..Len(FeatureNames) |->
         IF i \in ShapAt THEN Int2V(f[i]) ELSE Int2V((i % 3) - 1)] :
       f \in [ShapAt -> -MaxShap..MaxShap]}

\* The row of feature values: field i has the value i.
FeatRow == [i \in 1..Len(FeatureNames) |-> F(FeatureNames[i], Int2V(i))]

InitImpact ==
    /\ pc = "ready"
    /\ \E a \in ShapArrays : inp = [shap_arr |-> a, feat_row |-> FeatRow]
    /\ out = NoOut
    /\ Parked

CallImpact(ties) ==
    /\ pc = "ready"
    /\ out' = Return(_impact(inp.shap_arr, inp.feat_row, ties))
    /\ pc' = "done"
    /\ UNCHANGED <<inp, predictVars>>

NextImpact == \E ties \in {"before", "after"} : CallImpact(ties)

SpecImpact == InitImpact /\ [][NextImpact]_vars

---------------------------------------------------------------------------
(* The Fraud Detection tab: render *)

\* The options of st.selectbox("Method", [...]).
DisplayMethods == {"Custom Trained Model", "Beneish M-Score", "Piotroski F-Score"}

\* A plausible slip: the display name is passed on as it is.
MutMethodKeyIdentity(meth) == meth

\* method_key = "CatBoost" if meth == "Custom Trained Model" else meth
MethodKey(meth) == IF meth = "Custom Trained Model" THEN "CatBoost" ELSE meth

\* A plausible slip: the button is not looked at.
MutInvokesWithoutButton(w) == w.tickers # <<>>

\* render gets as far as F.predict: neither `if not tickers: return` nor
\* `if not st.button(...): st.stop()` has ended the cycle.
Invokes(w) == w.tickers # <<>> /\ w.pressed

\* What a render cycle has put on the page below the introduction: how the
\* cycle ended, the message and the metric shown, the keys of res that were
\* read, the sections rendered, and the exception that ended it if any.
Screen(stage, message, label, metric, reads, sections, error) ==
    [stage |-> stage, message |-> message, label |-> label, metric |-> metric,
     reads |-> reads, sections |-> sections, error |-> error]

Blank(stage) == Screen(stage, "", "", NoneField, {}, {}, "none")

SharedSections == {"Numeric Feature Values", "Feature Glossary"}

\* A plausible slip: the None check comes after the shared sections.
MutShowGlossaryOnNone(res, meth) ==
    IF res.none
    THEN Screen("returned", "Could not retrieve two full fiscal years", "",
                NoneField, {}, SharedSections, "none")
    ELSE Screen("returned", "", "F-Score", res.extra["F-Score"],
                {"feats", "extra"}, {"Verdict"} \cup SharedSections, "none")

\* Lines 75-145 of render, given what predict returned.
Show(res, meth) ==
    IF res.none
    THEN Screen("returned", "Could not retrieve two full fiscal years", "",
                NoneField, {}, {}, "none")
    ELSE IF meth = "Custom Trained Model"
    THEN IF res.prob = NoneField \/ res.shap = NoneField
         THEN Screen("crashed", "", "", NoneField, {"feats", "prob", "shap"}, {},
                     "TypeError")
         ELSE Screen("returned", "", "Fraud Probability", res.prob,
                     {"feats", "prob", "shap"},
                     {"Top SHAP Feature Impacts", "Dependence Plot", "Waterfall"}
                         \cup SharedSections, "none")
    ELSE IF meth = "Beneish M-Score"
    THEN IF res.extra = NoneField
         THEN Screen("crashed", "", "", NoneField, {"feats", "extra"}, {}, "TypeError")
         ELSE IF "M-Score" \notin DOMAIN res.extra
         THEN Screen("crashed", "", "", NoneField, {"feats", "extra"}, {}, "KeyError")
         ELSE Screen("returned", "", "M-Score", res.extra["M-Score"],
                     {"feats", "extra"}, {"Verdict"} \cup SharedSections, "none")
    ELSE IF res.extra = NoneField
         THEN Screen("crashed", "", "", NoneField, {"feats", "extra"}, {}, "TypeError")
         ELSE IF "F-Score" \notin DOMAIN res.extra
         THEN Screen("crashed", "", "", NoneField, {"feats", "extra"}, {}, "KeyError")
         ELSE Screen("returned", "", "F-Score", res.extra["F-Score"],
                     {"feats", "extra"}, {"Verdict"} \cup SharedSections, "none")

\* The widget states of a render cycle: the ticker list of the sidebar, the
\* two selections and the button.
TickerLists == {<<>>, <<"AAPL">>, <<"AAPL", "MSFT">>}
Widgets ==
    {[tickers |-> ts, tkr |-> t, meth |-> m, pressed |-> b] :
        ts \in TickerLists, t \in Tickers \cup {""}, m \in DisplayMethods,
        b \in BOOLEAN}
NoWidgets == [tickers |-> <<>>, tkr |-> "", meth |-> "", pressed |-> FALSE]

\* st.selectbox("Ticker", tickers) yields one of the list's entries.
Selectable(w) ==
    IF w.tickers = <<>> THEN w.tkr = ""
    ELSE \E i \in 1..Len(w.tickers) : w.tkr = w.tickers[i]

TabScenarios == {"empty", "two_desc", "zero_rev", "down"}

InitTab ==
    /\ pc = "idle"
    /\ inp = NoWidgets /\ out = Blank("idle")
    /\ provider \in [Tickers -> TabScenarios]
    /\ cache = <<>>
    /\ tkr = "" /\ method = ""
    /\ df2 = NoFrame /\ feats = <<>> /\ result = NoResult
    /\ seen = "" /\ queried = FALSE
    /\ ratioCalls = 0 /\ scorerCalls = 0
    /\ fetchCalls = 0 /\ fetched = {} /\ cache0 = <<>> /\ noted = NoNote
    /\ pending = NoPending

\* Streamlit runs render again with the widgets as the user left them.
Rerun(w) ==
    /\ pc = "idle"
    /\ out.stage # "rendering"
    /\ Selectable(w)
    /\ inp' = w
    /\ out' = Blank("rendering")
    /\ UNCHANGED <<pc, predictVars>>

\* if not tickers: st.info(...); return
NoTickers ==
    /\ pc = "idle"
    /\ out.stage = "rendering"
    /\ inp.tickers = <<>>
    /\ out' = Screen("returned", "Select at least one ticker", "", NoneField,
                     {}, {}, "none")
    /\ UNCHANGED <<pc, inp, predictVars>>

\* if not st.button("Run Prediction"): st.stop()
NotPressed ==
    /\ pc = "idle"
    /\ out.stage = "rendering"
    /\ inp.tickers # <<>>
    /\ ~Invokes(inp)
    /\ out' = Blank("stopped")
    /\ UNCHANGED <<pc, inp, predictVars>>

\* res = F.predict(tkr, method_key)
TabCall ==
    /\ out.stage = "rendering"
    /\ Invokes(inp)
    /\ Call(inp.tkr, MethodKey(inp.meth))

\* predict has returned or raised: the rest of render, or the end of the
\* cycle with predict's exception.
TabShow ==
    /\ pc = "done"
    /\ out.stage = "rendering"
    /\ out' = IF result.raised = "none" THEN Show(result.value, inp.meth)
              ELSE Screen("crashed", "", "", NoneField, {}, {}, result.raised)
    /\ UNCHANGED <<pc, inp, predictVars>>

TabFinish ==
    /\ out.stage # "rendering"
    /\ Finish

NextTab ==
    \/ \E w \in Widgets : Rerun(w)
    \/ NoTickers
    \/ NotPressed
    \/ TabCall
    \/ FetchHit
    \/ FetchMiss
    \/ CheckNone
    \/ Ratios
    \/ Score
    \/ TabShow
    \/ TabFinish

SpecTab == InitTab /\ [][NextTab]_vars

\* C26: every method the tab lets the user select maps to a method key that
\* predict recognises, so that predict's unknown-method error is unreachable
\* from the tab, and the result branch the tab renders (probability, M-Score
\* or F-Score) matches the fields predict populated for that key.
C26_TabMethods ==
    /\ \A m \in DisplayMethods : MethodKey(m) \in KnownMethods
    /\ pc # "idle" => method \in KnownMethods /\ method = MethodKey(inp.meth)
    /\ result # Raise("ValueError")
    /\ out.error \notin {"ValueError", "TypeError", "KeyError"}
    /\ pc = "done" /\ out.stage = "returned" /\ result.raised = "none"
          /\ ~result.value.none =>
          /\ inp.meth = "Custom Trained Model" =>
                /\ out.label = "Fraud Probability"
                /\ out.metric = result.value.prob
                /\ IsNum(out.metric)
          /\ inp.meth = "Beneish M-Score" =>
                /\ out.label = "M-Score"
                /\ out.metric = beneish_score(feats).value.score
          /\ inp.meth = "Piotroski F-Score" =>
                /\ out.label = "F-Score"
                /\ out.metric = piotroski_score(feats).value.score

\* C26 witness: the user chose "Custom Trained Model", predict ran as
\* CatBoost and the tab shows the probability.
C26_Witness ==
    /\ pc = "done"
    /\ inp.meth = "Custom Trained Model"
    /\ method = "CatBoost"
    /\ out.stage = "returned"
    /\ out.label = "Fraud Probability"
    /\ out.metric = result.value.prob

\* C27: in the tab predict is invoked only in a render cycle in which the
\* ticker list is non-empty and the Run Prediction button was pressed; when
\* predict returns None the tab shows the two-fiscal-years error and returns
\* without reading any field of the result and without rendering a score, a
\* feature table or the glossary.
C27_TabGuards ==
    /\ pc # "idle" => /\ inp.tickers # <<>>
                      /\ inp.pressed
                      /\ tkr = inp.tkr
    /\ pc = "done" /\ out.stage # "rendering" /\ result = NoneResult =>
          /\ out.stage = "returned"
          /\ out.message = "Could not retrieve two full fiscal years"
          /\ out.reads = {}
          /\ out.sections = {}
          /\ out.label = "" /\ out.metric = NoneField
          /\ out.error = "none"

\* C27 witness: the button was pressed for a ticker without statements, and
\* the tab shows the error and nothing else.
C27_Witness ==
    /\ pc = "done"
    /\ inp.pressed
    /\ result = NoneResult
    /\ out.stage = "returned"
    /\ out.message = "Could not retrieve two full fiscal years"
    /\ out.sections = {}

\* C28: the statement fetch is memoized per ticker: in a sequence of predict
\* calls over at most MaxCache distinct tickers, at most one provider query
\* returns without exception for a ticker and none is made for it afterwards,
\* whatever the method; a fetch that returned None is kept too, and the
\* ticker keeps yielding None without a new provider query.
C28_FetchMemoized ==
    /\ \A r \in fetched : r.nth = "first"
    /\ \A r1, r2 \in fetched : r1.key = r2.key => r1 = r2
    /\ \A t \in Tickers : Fetched(t) <=> t \in CacheKeys
    /\ pc \in {"check", "ratios", "dispatch", "done"} /\ queried =>
          tkr \notin {cache0[i].key : i \in 1..Len(cache0)}
    /\ pc \in {"check", "ratios", "dispatch", "done"}
          /\ [key |-> tkr, nth |-> "first", outcome |-> "none"] \in fetched =>
          /\ result.raised # "ConnectionError"
          /\ df2.none
          /\ pc = "done" => result = NoneResult

\* C28 witness: a ticker whose fetch returned None in an earlier call is
\* asked for again, under a provider that now has its statements, and the
\* call ends with None without a provider query.
C28_Witness ==
    /\ pc = "done"
    /\ ~queried
    /\ [key |-> tkr, nth |-> "first", outcome |-> "none"] \in fetched
    /\ provider[tkr] = "two_desc"
    /\ result = NoneResult

---------------------------------------------------------------------------
(* The Beneish scorer on two FeatureVectors *)

\* The fields varied in the pairs: two of the seven the sum reads, and one
\* each of LVGI, the supplementary ratios and the Piotroski helpers.
PairRead == {"DSRI", "TATA"}
PairUnread == {"LVGI", "liquidity", "Shares"}

\* The vector fv with the fields of DOMAIN f set as f says.
With(fv, f) ==
    [i \in 1..Len(fv) |->
        F(fv[i].name, IF fv[i].name \in DOMAIN f THEN f[fv[i].name] ELSE fv[i].val)]

AgreeOn(a, b, names) == \A n \in names : Field(a, n) = Field(b, n)

InitBeneishPair ==
    /\ pc = "ready"
    /\ \E f \in [PairRead -> FeatVals], g1 \in [PairUnread -> FeatVals],
          dsri \in FeatVals :
          inp = [a |-> MkFV(f),
                 b |-> With(With(MkFV(f), g1), [n \in {"DSRI"} |-> dsri])]
    /\ out = NoOut
    /\ Parked

CallBeneishPair ==
    /\ pc = "ready"
    /\ out' = Return([a |-> beneish_score(inp.a).value, b |-> beneish_score(inp.b).value])
    /\ pc' = "done"
    /\ UNCHANGED <<inp, predictVars>>

NextBeneishPair == CallBeneishPair

SpecBeneishPair == InitBeneishPair /\ [][NextBeneishPair]_vars

\* C29: the Beneish score and flag depend only on the seven fields DSRI, GMI,
\* AQI, SGI, DEPI, SGAI and TATA: two FeatureVectors that agree on these
\* seven and differ in LVGI, in the supplementary ratios or in the Piotroski
\* helper fields get the same score and the same flag.
C29_BeneishSevenFields ==
    pc = "done" /\ AgreeOn(inp.a, inp.b, BeneishFields) =>
        /\ out.value.a.score = out.value.b.score
        /\ out.value.a.flag = out.value.b.flag

\* C29 witness: two vectors that agree on the seven fields and differ in
\* LVGI, in liquidity and in Shares have been scored alike.
C29_Witness ==
    /\ pc = "done"
    /\ AgreeOn(inp.a, inp.b, BeneishFields)
    /\ \A n \in PairUnread : Field(inp.a, n) # Field(inp.b, n)
    /\ out.value.a = out.value.b
    /\ out.value.a.flag

---------------------------------------------------------------------------
(* The Optimizer tab: markowitz_random_portfolios *)

\* Weights in hundredths.  np.random.dirichlet(np.ones(n)) yields n weights
\* that are at least 0 and sum to 1; two tickers, five of its vectors.
Dirichlet == {<<0, 100>>, <<25, 75>>, <<50, 50>>, <<75, 25>>, <<100, 0>>}

\* The largest num_portfolios of the calls; the tab's number_input starts at
\* 100, the function takes any integer.
MaxPortfolios == 2
Portfolios == -1..MaxPortfolios

\* min_weight and max_weight of the calls, a pair with min above max included.
MinWeights == {0, 50, 60}
MaxWeights == {50, 100}

\* attempts < num_portfolios * 10
AttemptFactor == 10

\* A plausible slip: only the lower bound is tested.
MutInBoundsMinOnly(w, min_weight, max_weight) ==
    \A i \in 1..Len(w) : w[i] >= min_weight

\* np.all(w >= min_weight) and np.all(w <= max_weight)
InBounds(w, min_weight, max_weight) ==
    /\ \A i \in 1..Len(w) : w[i] >= min_weight
    /\ \A i \in 1..Len(w) : w[i] <= max_weight

\* while len(results) < num_portfolios and attempts < num_portfolios * 10
Continue(results, attempts, num_portfolios) ==
    /\ Len(results) < num_portfolios
    /\ attempts < num_portfolios * AttemptFactor

\* The locals of the call, and what the tab made of the table.  Return,
\* Volatility and Sharpe of a row are numbers computed from w and the
\* returns; the loop does not look at them.
Locals(results, attempts, page) ==
    [results |-> results, attempts |-> attempts, page |-> page]

InitMarkowitz ==
    /\ pc = "while"
    /\ \E n \in Portfolios, lo \in MinWeights, hi \in MaxWeights :
          inp = [num_portfolios |-> n, min_weight |-> lo, max_weight |-> hi]
    /\ out = Locals(<<>>, 0, "")
    /\ Parked

\* One pass of the loop body with the sampled w.
Sample(w) ==
    /\ pc = "while"
    /\ Continue(out.results, out.attempts, inp.num_portfolios)
    /\ out' = Locals(
                 IF InBounds(w, inp.min_weight, inp.max_weight)
                 THEN Append(out.results, [Weights |-> w])
                 ELSE out.results,
                 out.attempts + 1, "")
    /\ UNCHANGED <<pc, inp, predictVars>>

\* return pd.DataFrame(results)
ReturnTable ==
    /\ pc = "while"
    /\ ~Continue(out.results, out.attempts, inp.num_portfolios)
    /\ pc' = "returned"
    /\ UNCHANGED <<inp, out, predictVars>>

\* render: if res_df.empty: st.warning(...); return -- else the charts.
RenderTable ==
    /\ pc = "returned"
    /\ out' = Locals(out.results, out.attempts,
                     IF out.results = <<>> THEN "warning" ELSE "chart")
    /\ pc' = "rendered"
    /\ UNCHANGED <<inp, predictVars>>

NextMarkowitz ==
    \/ \E w \in Dirichlet : Sample(w)
    \/ ReturnTable
    \/ RenderTable

\* The call runs on the script's thread: a step that can be taken is taken.
SpecMarkowitz == InitMarkowitz /\ [][NextMarkowitz]_vars /\ WF_vars(NextMarkowitz)

Max0(i) == IF i < 0 THEN 0 ELSE i

MarkowitzBounded ==
    /\ out.attempts <= Max0(inp.num_portfolios) * AttemptFactor
    /\ Len(out.results) <= Max0(inp.num_portfolios)
    /\ Len(out.results) <= out.attempts
    /\ \A k \in 1..Len(out.results) : \A i \in 1..Len(out.results[k].Weights) :
          /\ out.results[k].Weights[i] >= inp.min_weight
          /\ out.results[k].Weights[i] <= inp.max_weight
    /\ inp.min_weight > inp.max_weight => out.results = <<>>
    /\ pc = "rendered" =>
          /\ out.results = <<>> => out.page = "warning"
          /\ out.results # <<>> => out.page = "chart"

\* C30: markowitz_random_portfolios always terminates after at most
\* 10 * num_portfolios sampling attempts and returns at most num_portfolios
\* portfolios, each with all weights within [min_weight, max_weight]; when
\* no sampled weight vector satisfies the bounds it returns an empty table,
\* which the Optimizer tab reports as a warning instead of charting.
C30_MarkowitzTerminates == []MarkowitzBounded /\ <>(pc = "rendered")

\* C30 witness: with min_weight above max_weight every one of the
\* 10 * num_portfolios samples was rejected and the tab shows the warning.
C30_Witness ==
    /\ pc = "rendered"
    /\ inp.num_portfolios = MaxPortfolios
    /\ out.attempts = MaxPortfolios * AttemptFactor
    /\ out.results = <<>>
    /\ out.page = "warning"

=============================================================================
